---- MODULE Spec2Model ----
(***************************************************************************)
(* Discrete-event combat simulator of hunter-sim: the hunters (Borge,      *)
(* Ozzy, Knox) of hunters.py, the enemies and bosses of units.py, and the   *)
(* event queue that drives a run.                                           *)
(*                                                                          *)
(* Units.  HP, power, regen and damage are integers in thousandths of a     *)
(* point (43 HP = 43000).  Chances and multipliers are integers in          *)
(* millionths (0.25 = 250000).  Queue times are integers in milliseconds    *)
(* (the code rounds them to 3 decimals); attack intervals are kept in       *)
(* microseconds until they are rounded into a queue time.  Percentages      *)
(* (damage reduction) are in hundredths of a percent (0.09 = 900).          *)
(* A random.random() < p roll with 0 < p < 1 is a nondeterministic BOOLEAN. *)
(***************************************************************************)
EXTENDS Integers, Sequences, FiniteSets, TLC

VARIABLES
    hunter,        \* the Hunter object (Borge / Ozzy / Knox) and its statistics
    enemies,       \* sim.enemies: the enemies of the current stage, target first
    queue,         \* sim.queue: a Python list kept as a binary heap of <<time, prio, kind>>
    elapsed_time,  \* sim.elapsed_time, in ms
    status,        \* "running" | "finished" | "raised" (an exception left the run)
    time_budget,   \* the run's simulated time budget, in ms
    free_rolls,    \* how many more handlers may draw a roll that succeeds
    deaths,        \* observation: units that went from alive to dead
    on_kills,      \* observation: completed calls of the hunter's on_kill
    dead_seen,     \* observation: the hunter was dead with no revive left
    build_config,  \* the build config dict handed to a hunter's constructor
    built,         \* what the constructor left: nothing yet, a hunter, or an exception
    fetch_for,     \* the hunter class and the stage fetch_stats is called for
    fetched,       \* the stats dicts fetch_stats returned for them
    stop_event,    \* the optimizer's cancellation flag
    worker,        \* the optimization thread: its position, its build, its results_list
    results,       \* the BuildResults the optimization has appended
    hunter_tabs,   \* per hunter tab: is_running and its stop_event
    sequential_queue, \* the hunters Run All has still to start
    after_calls,   \* the callbacks scheduled with root.after and not yet run
    run_all_btn,   \* the state of the Run All button; Stop All has the other one
    presses,       \* how often Run All was pressed
    walk,          \* the random walk of the build generator: its position and locals
    stun_call,     \* one call of Enemy.stun on a queue, and the pops that follow it
    harden_fight,  \* an Exoscarab boss over a fight: its Harden state and its next events
    pace,          \* one enemy or boss and the times its attacks are queued at
    tab            \* one optimizer tab: its flags, its result_queue and its worker threads

\* the variables of a simulation run, and those of the constructor
simvars == <<hunter, enemies, queue, elapsed_time, status, time_budget,
             free_rolls, deaths, on_kills, dead_seen>>
buildvars == <<build_config, built>>
statvars == <<fetch_for, fetched>>
batchvars == <<stop_event, worker, results>>
guivars == <<hunter_tabs, sequential_queue, after_calls, run_all_btn, presses>>

vars == <<simvars, buildvars, statvars, batchvars, guivars, walk, stun_call, harden_fight, pace, tab>>

\* what a simulation run, a constructor call, a fetch of stats, an
\* optimization, the Run All controls, the build generator, a call of
\* Enemy.stun, a fight with the Exoscarab, the pacing of a unit, an optimizer
\* tab leave alone
notsim == <<buildvars, statvars, batchvars, guivars, walk, stun_call, harden_fight, pace, tab>>
notbuild == <<simvars, statvars, batchvars, guivars, walk, stun_call, harden_fight, pace, tab>>
notstat == <<simvars, buildvars, batchvars, guivars, walk, stun_call, harden_fight, pace, tab>>
notbatch == <<simvars, buildvars, statvars, guivars, walk, stun_call, harden_fight, pace, tab>>
notgui == <<simvars, buildvars, statvars, batchvars, walk, stun_call, harden_fight, pace, tab>>
notwalk == <<simvars, buildvars, statvars, batchvars, guivars, stun_call, harden_fight, pace, tab>>
notcall == <<simvars, buildvars, statvars, batchvars, guivars, walk, harden_fight, pace, tab>>
notfight == <<simvars, buildvars, statvars, batchvars, guivars, walk, stun_call, pace, tab>>
notpace == <<simvars, buildvars, statvars, batchvars, guivars, walk, stun_call, harden_fight, tab>>
nottab == <<simvars, buildvars, statvars, batchvars, guivars, walk, stun_call, harden_fight, pace>>

\* no constructor call is under way
BuildIdle ==
    /\ build_config = [kind |-> "none", sections |-> {}, keys |-> {}]
    /\ built = [state |-> "idle"]

\* no stats are being fetched
StatIdle ==
    /\ fetch_for = [kind |-> "none", stage |-> 0]
    /\ fetched = [state |-> "idle"]

\* no optimization is running
BatchIdle ==
    /\ stop_event = FALSE
    /\ worker = [pc |-> "idle"]
    /\ results = <<>>

\* the multi-hunter window is not open
GuiIdle ==
    /\ hunter_tabs = <<>>
    /\ sequential_queue = <<>>
    /\ after_calls = <<>>
    /\ run_all_btn = "none"
    /\ presses = 0

\* no build is being generated
WalkIdle == walk = [pc |-> "idle"]

\* no stun is being applied to a queue of its own
StunIdle == stun_call = [pc |-> "idle"]

\* no boss fight of its own is under way
HardenIdle == harden_fight = [pc |-> "idle"]

\* no unit's attacks are being paced
PaceIdle == pace = [pc |-> "idle"]

\* no optimizer tab is open
TabIdle == tab = [window |-> "none"]

-----------------------------------------------------------------------------
(* Arithmetic helpers *)

Min(a, b) == IF a < b THEN a ELSE b
Max(a, b) == IF a > b THEN a ELSE b

\* floor(x * n / d) for x, n, d >= 0 without forming x * n
MulDiv(x, n, d) == (x \div d) * n + ((x % d) * n) \div d

\* round(us / 1000): a time in microseconds rounded to whole milliseconds
RoundMs(us) == (us + 500) \div 1000

-----------------------------------------------------------------------------
(* heapq on sim.queue.  Positions are Python's 0-based indices; the         *)
(* sequence index is position + 1.  Events compare as Python tuples.        *)

KindRank(k) ==
    CASE k = "enemy" -> 1
      [] k = "enemy_special" -> 2
      [] k = "hunter" -> 3
      [] k = "hunter_special" -> 4
      [] k = "regen" -> 5
      [] k = "stun" -> 6

\* tuple comparison a < b of two events
Lt(a, b) ==
    \/ a[1] < b[1]
    \/ a[1] = b[1] /\ a[2] < b[2]
    \/ a[1] = b[1] /\ a[2] = b[2] /\ KindRank(a[3]) < KindRank(b[3])

RECURSIVE SiftDownFrom(_, _, _, _)
SiftDownFrom(heap, startpos, pos, newitem) ==
    IF pos > startpos
    THEN LET parentpos == (pos - 1) \div 2
             parent == heap[parentpos + 1]
         IN  IF Lt(newitem, parent)
             THEN SiftDownFrom([heap EXCEPT ![pos + 1] = parent], startpos, parentpos, newitem)
             ELSE [heap EXCEPT ![pos + 1] = newitem]
    ELSE [heap EXCEPT ![pos + 1] = newitem]

siftdown(heap, startpos, pos) == SiftDownFrom(heap, startpos, pos, heap[pos + 1])

RECURSIVE SiftUpFrom(_, _, _, _)
SiftUpFrom(heap, startpos, pos, newitem) ==
    LET endpos == Len(heap)
        childpos == 2 * pos + 1
    IN  IF childpos < endpos
        THEN LET rightpos == childpos + 1
                 c == IF rightpos < endpos /\ ~Lt(heap[childpos + 1], heap[rightpos + 1])
                      THEN rightpos ELSE childpos
             IN  SiftUpFrom([heap EXCEPT ![pos + 1] = heap[c + 1]], startpos, c, newitem)
        ELSE siftdown([heap EXCEPT ![pos + 1] = newitem], startpos, pos)

siftup(heap, pos) == SiftUpFrom(heap, pos, pos, heap[pos + 1])

heappush(heap, item) == siftdown(Append(heap, item), 0, Len(heap))

\* the list left by heappop(heap); the popped item is heap[1]
heappop(heap) ==
    LET lastelt == heap[Len(heap)]
        rest == SubSeq(heap, 1, Len(heap) - 1)
    IN  IF rest = <<>> THEN rest ELSE siftup([rest EXCEPT ![1] = lastelt], 0)

RECURSIVE HeapifyFrom(_, _)
HeapifyFrom(x, i) == IF i < 0 THEN x ELSE HeapifyFrom(siftup(x, i), i - 1)

heapify(x) == HeapifyFrom(x, (Len(x) \div 2) - 1)

\* the heap order of a list: no element is smaller than its parent
IsHeap(x) == \A i \in 2..Len(x) : ~Lt(x[i], x[i \div 2])

-----------------------------------------------------------------------------
(* Enemy and boss stats (units.py).  The hunter's class selects the table.  *)

\* the chain of breakpoints of multi_wasm / knox_scaling applied to x:
\* each exceeded threshold t multiplies by 1 + (stage - t) * rate / 1000
RECURSIVE ApplyBreakpoints(_, _, _, _)
ApplyBreakpoints(x, stage, thresholds, rate) ==
    IF thresholds = <<>> THEN x
    ELSE LET t == Head(thresholds)
             y == IF stage > t THEN MulDiv(x, 1000 + (stage - t) * rate, 1000) ELSE x
         IN  ApplyBreakpoints(y, stage, Tail(thresholds), rate)

\* x * 1.01 ** n
RECURSIVE ApplyGrowth(_, _)
ApplyGrowth(x, n) ==
    IF n <= 0 THEN x
    ELSE IF n >= 50 THEN ApplyGrowth(MulDiv(x, 16446, 10000), n - 50)
    ELSE IF n >= 10 THEN ApplyGrowth(MulDiv(x, 11046, 10000), n - 10)
    ELSE ApplyGrowth(MulDiv(x, 101, 100), n - 1)

\* variant of multi_wasm: the exponential term is active from its threshold on
\* instead of strictly above it
multi_wasm_from_threshold(x, stage) ==
    IF stage < 150 THEN x
    ELSE ApplyGrowth(
             ApplyBreakpoints(x, stage,
                 <<149, 199, 249, 299, 309, 319, 329, 339, 349, 359, 369, 379, 389>>, 6),
             stage - 349)

\* x * multi_wasm(stage)
multi_wasm(x, stage) ==
    IF stage < 150 THEN x
    ELSE ApplyGrowth(
             ApplyBreakpoints(x, stage,
                 <<149, 199, 249, 299, 309, 319, 329, 339, 349, 359, 369, 379, 389>>, 6),
             stage - 350)

\* x * knox_scaling(stage)
knox_scaling(x, stage) ==
    IF stage < 150 THEN x
    ELSE ApplyGrowth(
             ApplyBreakpoints(x, stage,
                 <<149, 199, 249, 299, 349, 369, 389, 409, 429>>, 7),
             stage - 400)

\* Enemy.fetch_stats: hp, power and regen before the stage multiplier, with
\* the multipliers past stage 100; unit is the number of model units in 1.0
\* (1000 in a run)
EnemyBase(kind, stage, unit) ==
    CASE kind = "Borge" ->
           [hp |-> IF stage > 100 THEN MulDiv((9 + stage * 4) * unit, 285, 100)
                   ELSE (9 + stage * 4) * unit,
            power |-> IF stage > 100 THEN MulDiv(MulDiv(25 + stage * 7, unit, 10), 285, 100)
                      ELSE MulDiv(25 + stage * 7, unit, 10),
            regen |-> IF stage > 100 THEN MulDiv(MulDiv((stage - 1) * 8, unit, 100), 1052, 1000)
                      ELSE IF stage > 1 THEN MulDiv((stage - 1) * 8, unit, 100) ELSE 0]
      [] kind = "Ozzy" ->
           [hp |-> IF stage > 100 THEN MulDiv((11 + stage * 6) * unit, 29, 10)
                   ELSE (11 + stage * 6) * unit,
            power |-> IF stage > 100 THEN MulDiv(MulDiv(135 + stage * 75, unit, 100), 27, 10)
                      ELSE MulDiv(135 + stage * 75, unit, 100),
            regen |-> IF stage > 100 THEN MulDiv(MulDiv(stage - 1, unit, 10), 125, 100)
                      ELSE IF stage > 0 THEN MulDiv(stage - 1, unit, 10) ELSE 0]
      [] kind = "Knox" ->
           [hp |-> IF stage > 100 THEN MulDiv((10 + stage * 5) * unit, 28, 10)
                   ELSE (10 + stage * 5) * unit,
            power |-> IF stage > 100 THEN MulDiv(MulDiv(150 + stage * 65, unit, 100), 26, 10)
                      ELSE MulDiv(150 + stage * 65, unit, 100),
            regen |-> IF stage > 100 THEN MulDiv(MulDiv((stage - 1) * 9, unit, 100), 115, 100)
                      ELSE IF stage > 0 THEN MulDiv((stage - 1) * 9, unit, 100) ELSE 0]

\* Enemy.fetch_stats: the stage 300 nerf of hp and power
Stage300Nerf(kind, stage, x) ==
    IF stage # 300 THEN x
    ELSE CASE kind = "Borge" -> MulDiv(x, 9, 10)
           [] kind = "Ozzy" -> MulDiv(x, 94, 100)
           [] kind = "Knox" -> x

\* Enemy.fetch_stats: stage_mult
StageMult(kind, stage, x) ==
    IF kind = "Knox" THEN knox_scaling(x, stage) ELSE multi_wasm(x, stage)

\* Enemy.fetch_stats, in the unit given
EnemyStatsIn(kind, stage, unit) ==
    [hp |-> Stage300Nerf(kind, stage, StageMult(kind, stage, EnemyBase(kind, stage, unit).hp)),
     power |-> Stage300Nerf(kind, stage,
                            StageMult(kind, stage, EnemyBase(kind, stage, unit).power)),
     regen |-> StageMult(kind, stage, EnemyBase(kind, stage, unit).regen),
     special_chance |-> CASE kind = "Borge" -> 32200 + stage * 400
                          [] kind = "Ozzy" -> 99400 + stage * 600
                          [] kind = "Knox" -> 75000 + stage * 550,
     special_damage |-> CASE kind = "Borge" -> 1210000 + stage * 8025
                          [] kind = "Ozzy" -> 1030000 + stage * 8000
                          [] kind = "Knox" -> 1150000 + stage * 7500,
     damage_reduction |-> 0,
     evade_chance |-> IF stage <= 100 THEN 0
                      ELSE CASE kind = "Borge" -> 4000
                             [] kind = "Ozzy" -> 10000
                             [] kind = "Knox" -> 6000,
     speed |-> CASE kind = "Borge" -> 4530000 - stage * 6000
                 [] kind = "Ozzy" -> 3200000 - stage * 4000
                 [] kind = "Knox" -> 3800000 - stage * 5000]

\* Enemy.fetch_stats of a run: hp in thousandths
EnemyStats(kind, stage) == EnemyStatsIn(kind, stage, 1000)

\* Boss.fetch_stats on the enemy's stats e at the stage: the class's multipliers
BossStatsOf(kind, stage, e) ==
    LET dr == Min(500 + stage * 4, 2500)
    IN  CASE kind = "Borge" ->
               LET base_speed == 4530000 - stage * 6000
                   base_speed2 == MulDiv(base_speed, 18, 10)
               IN  [hp |-> e.hp * 90,
                    power |-> MulDiv(e.power, 363, 100),
                    regen |-> MulDiv(e.regen, 25, 10),
                    special_chance |-> Min(e.special_chance + 80000, 250000),
                    special_damage |-> Min(e.special_damage + 500000, 2500000),
                    damage_reduction |-> dr,
                    evade_chance |-> e.evade_chance,
                    speed |-> MulDiv(base_speed, 21, 10),
                    enrage_effect |-> base_speed \div 200,
                    enrage_effect2 |-> IF stage >= 200 THEN base_speed2 \div 200 ELSE 0,
                    special |-> IF stage >= 200 THEN "gothmorgor" ELSE "none",
                    speed2 |-> IF stage >= 200 THEN MulDiv(base_speed2, 21, 10) ELSE 0]
          [] kind = "Ozzy" ->
               LET base_speed == 3200000 - stage * 4000
                   base_speed2 == MulDiv(base_speed, 43, 10)
               IN  [hp |-> e.hp * 48,
                    power |-> MulDiv(e.power, 325, 100),
                    regen |-> e.regen * 6,
                    special_chance |-> Min(e.special_chance + 200000, 250000),
                    special_damage |-> Min(e.special_damage + 800000, 2500000),
                    damage_reduction |-> dr,
                    evade_chance |-> e.evade_chance,
                    speed |-> MulDiv(base_speed, 215, 100),
                    enrage_effect |-> base_speed \div 200,
                    enrage_effect2 |-> 0,
                    special |-> IF stage >= 200 THEN "exoscarab" ELSE "none",
                    speed2 |-> IF stage >= 200 THEN MulDiv(base_speed2, 215, 100) ELSE 0]
          [] kind = "Knox" ->
               LET base_speed == 3800000 - stage * 5000
               IN  [hp |-> e.hp * 120,
                    power |-> e.power * 4,
                    regen |-> e.regen * 3,
                    special_chance |-> Min(e.special_chance + 60000, 250000),
                    special_damage |-> Min(e.special_damage + 400000, 2500000),
                    damage_reduction |-> dr,
                    evade_chance |-> e.evade_chance,
                    speed |-> base_speed * 2,
                    enrage_effect |-> base_speed \div 200,
                    enrage_effect2 |-> 0,
                    special |-> "none",
                    speed2 |-> 0]

\* a variant of Boss.fetch_stats: the boss's hp and power come from a table
\* of its own, which the stage 300 nerf of the enemies never reached
BossStatsOwnTable(kind, stage, unit) ==
    [BossStatsOf(kind, stage, EnemyStatsIn(kind, stage, unit)) EXCEPT
        !.hp = BossStatsOf(kind, stage,
                   [EnemyStatsIn(kind, stage, unit) EXCEPT
                       !.hp = StageMult(kind, stage, EnemyBase(kind, stage, unit).hp)]).hp]

\* Boss.fetch_stats, in the unit given
BossStatsIn(kind, stage, unit) == BossStatsOf(kind, stage, EnemyStatsIn(kind, stage, unit))

\* Boss.fetch_stats of a run
BossStats(kind, stage) == BossStatsIn(kind, stage, 1000)

\* a variant of the crit damage cap: no cap
NoCapSpecialDamage(special_damage) == special_damage

\* the crit caps of Enemy.__create__ (patch 2024-01-24)
CapSpecialChance(special_chance) == Min(special_chance, 250000)
CapSpecialDamage(special_damage) == Min(special_damage, 2500000)

\* Enemy.__create__ and Boss.__init__ on the fetched stats s
UnitOf(id, boss, s) ==
        [id |-> id,
         boss |-> boss,
         hp |-> s.hp,
         max_hp |-> s.hp,
         power |-> s.power,
         regen |-> s.regen,
         damage_reduction |-> s.damage_reduction,
         evade_chance |-> s.evade_chance,
         special_chance |-> CapSpecialChance(s.special_chance),
         special_damage |-> CapSpecialDamage(s.special_damage),
         speed |-> s.speed,
         has_special |-> boss /\ s.special # "none",
         secondary_attack |-> IF boss THEN s.special ELSE "none",
         speed2 |-> IF boss THEN s.speed2 ELSE 0,
         enrage_effect |-> IF boss THEN s.enrage_effect ELSE 0,
         enrage_effect2 |-> IF boss THEN s.enrage_effect2 ELSE 0,
         base_power |-> s.power,
         enrage_stacks |-> 0,
         harden_ticks_left |-> 0,
         previous_dr |-> s.damage_reduction,
         max_enrage |-> FALSE]

\* Enemy.__create__ and Boss.__init__: the unit before on_create runs
CreateUnit(id, kind, stage, boss) ==
    UnitOf(id, boss, IF boss THEN BossStats(kind, stage) ELSE EnemyStats(kind, stage))

\* Boss.speed / Boss.speed2 (properties) and Enemy.speed, in microseconds
UnitSpeed(e) ==
    IF e.boss THEN Max(e.speed - e.enrage_effect * e.enrage_stacks, 500000) ELSE e.speed
UnitSpeed2(e) == Max(e.speed2 - e.enrage_effect2 * e.enrage_stacks, 500000)

\* Enemy.is_dead
UnitIsDead(e) == e.hp <= 0

-----------------------------------------------------------------------------
(* Hunters (hunters.py).  A build gives the levels the model varies; every  *)
(* level it does not name is 0 (born_for_battle, atlas_protocol,            *)
(* deal_with_death, cycle_of_death, omen_of_defeat, soul_of_snek,           *)
(* lifedrain_inhalers, vectid_elixir, finishing_move, calypsos_advantage,   *)
(* timeless_mastery, the inscryptions, relics, gems and gadgets), so the    *)
(* getters and effects that only read those levels leave the stat as it is. *)

\* Borge.__create__ / Ozzy.__create__ / Knox.__create__ and the __init__ of
\* each class and of Hunter: the hunter built from the levels lv
NewHunter(kind, lv) ==
    [kind |-> kind,
     lv |-> lv,
     max_hp |-> CASE kind = "Borge" -> 43000 + lv.hp * (2500 + 10 * (lv.hp \div 5))
                  [] kind = "Ozzy" -> 16000 + lv.hp * (2000 + 30 * (lv.hp \div 5))
                  [] kind = "Knox" -> 20000 + lv.hp * (2000 + 20 * (lv.hp \div 5)),
     hp |-> CASE kind = "Borge" -> 43000 + lv.hp * (2500 + 10 * (lv.hp \div 5))
              [] kind = "Ozzy" -> 16000 + lv.hp * (2000 + 30 * (lv.hp \div 5))
              [] kind = "Knox" -> 20000 + lv.hp * (2000 + 20 * (lv.hp \div 5)),
     power |-> CASE kind = "Borge" -> 3000 + lv.power * (500 + 10 * (lv.power \div 10))
                                      + lv.stun * 2000
                 [] kind = "Ozzy" -> 2000 + lv.power * (300 + 10 * (lv.power \div 10))
                 [] kind = "Knox" -> 2500 + lv.power * (400 + 10 * (lv.power \div 10)),
     regen |-> CASE kind = "Borge" -> 20 [] kind = "Ozzy" -> 100 [] kind = "Knox" -> 150,
     damage_reduction |-> CASE kind = "Borge" -> lv.damage_reduction * 144
                            [] kind = "Ozzy" -> lv.damage_reduction * 35
                            [] kind = "Knox" -> lv.damage_reduction * 100,
     special_damage |-> CASE kind = "Borge" -> 1300000
                          [] kind = "Ozzy" -> 250000
                          [] kind = "Knox" -> 1000000,
     speed |-> CASE kind = "Borge" -> 5000000
                 [] kind = "Ozzy" -> 4000000 - lv.stun * 60000
                 [] kind = "Knox" -> 4000000,
     lifesteal |-> CASE kind = "Borge" -> lv.lifesteal * 111
                     [] kind = "Ozzy" -> lv.lifesteal * 330
                     [] kind = "Knox" -> 0,
     salvo_projectiles |-> 5,
     charge_gained |-> 1000000,
     catching_up |-> TRUE,
     current_stage |-> 0,
     total_kills |-> 0,
     times_revived |-> 0,
     revive_log |-> <<>>,
     enrage_log |-> <<>>,
     total_taken |-> 0,
     total_mitigated |-> 0,
     total_attacks_suffered |-> 0,
     total_evades |-> 0,
     total_regen |-> 0,
     total_lifesteal |-> 0,
     total_loth |-> 0,
     total_potion |-> 0,
     total_blocked |-> 0,
     total_loot |-> 0,
     loot_common |-> 0,
     loot_uncommon |-> 0,
     loot_rare |-> 0,
     helltouch_kills |-> 0,
     trample_kills |-> 0,
     medusa_kills |-> 0,
     fires_of_war |-> 0,
     trickster_charges |-> 0,
     total_trickster_evades |-> 0,
     crippling_on_target |-> 0,
     empowered_regen |-> 0,
     total_stuntime_inflicted |-> 0,
     attack_queue |-> <<>>]

\* variant of Hunter.complete_stage: catching up ends past stage 100
CompleteStagePast100(h, stages) ==
    [h EXCEPT !.current_stage = @ + stages,
              !.catching_up = IF h.current_stage + stages > 100 THEN FALSE ELSE @]

\* Hunter.complete_stage
HunterCompleteStage(h, stages) ==
    [h EXCEPT !.current_stage = @ + stages,
              !.catching_up = IF h.current_stage + stages >= 100 THEN FALSE ELSE @]

\* Hunter.is_dead
HunterIsDead(h) == h.hp <= 0

\* Hunter.missing_hp
HunterMissingHp(h) == h.max_hp - h.hp

\* the stage is a boss stage (current_stage % 100 == 0 and current_stage > 0)
OnBossStage(h) == h.current_stage % 100 = 0 /\ h.current_stage > 0

\* a variant of Hunter.on_death: the revive is at full health
HunterOnDeathFull(h) ==
    IF h.times_revived < h.lv.death_is_my_companion
    THEN [h EXCEPT !.hp = h.max_hp,
                   !.revive_log = Append(@, h.current_stage),
                   !.times_revived = @ + 1]
    ELSE h

\* a variant of Hunter.on_death: it revives whatever the count of revives
HunterOnDeathAlways(h) ==
    [h EXCEPT !.hp = MulDiv(h.max_hp, 8, 10),
              !.revive_log = Append(@, h.current_stage),
              !.times_revived = @ + 1]

\* Hunter.on_death
HunterOnDeath(h) ==
    IF h.times_revived < h.lv.death_is_my_companion
    THEN [h EXCEPT !.hp = MulDiv(h.max_hp, 8, 10),
                   !.revive_log = Append(@, h.current_stage),
                   !.times_revived = @ + 1]
    ELSE h

\* damage * (1 - damage_reduction), damage_reduction in hundredths of a percent
Mitigate(damage, dr) == MulDiv(damage, 10000 - dr, 10000)

\* Hunter.receive_damage; final is the value it returns
DieIfDead(h) == IF HunterIsDead(h) THEN HunterOnDeath(h) ELSE h

TakeDamage(h, damage, mitigated_damage) ==
    [h |-> DieIfDead([h EXCEPT !.hp = @ - mitigated_damage,
                               !.total_taken = @ + mitigated_damage,
                               !.total_mitigated = @ + (damage - mitigated_damage),
                               !.total_attacks_suffered = @ + 1]),
     final |-> mitigated_damage]

\* a variant of Hunter.receive_damage: an evaded hit counts as an attack suffered
EvadeCounted(h, damage, evade) ==
    IF evade
    THEN [h |-> [h EXCEPT !.total_evades = @ + 1, !.total_attacks_suffered = @ + 1],
          final |-> 0]
    ELSE TakeDamage(h, damage, Mitigate(damage, h.damage_reduction))

HunterReceiveDamage(h, damage, evade) ==
    IF evade
    THEN [h |-> [h EXCEPT !.total_evades = @ + 1], final |-> 0]
    ELSE TakeDamage(h, damage, Mitigate(damage, h.damage_reduction))

\* Hunter.heal_hp
Heal(h, effective_heal, source) ==
    [h EXCEPT !.hp = @ + effective_heal,
              !.total_regen = IF source = "regen" THEN @ + effective_heal ELSE @,
              !.total_lifesteal = IF source = "steal" THEN @ + effective_heal ELSE @,
              !.total_loth = IF source = "loth" THEN @ + effective_heal ELSE @,
              !.total_potion = IF source = "potion" THEN @ + effective_heal ELSE @]

HunterHealHp(h, value, source) == Heal(h, Min(value, HunterMissingHp(h)), source)

\* 1.05 ** n applied to x
RECURSIVE ApplyLootGrowth(_, _)
ApplyLootGrowth(x, n) ==
    IF n <= 0 THEN x
    ELSE IF n >= 50 THEN ApplyLootGrowth(MulDiv(x, 114674, 10000), n - 50)
    ELSE IF n >= 10 THEN ApplyLootGrowth(MulDiv(x, 16289, 10000), n - 10)
    ELSE ApplyLootGrowth(MulDiv(x, 105, 100), n - 1)

\* Hunter.compute_loot, in ten-thousandths (the loot of a stage 199 kill is
\* 86462.9: three of them in millionths would not fit 32 bits); Knox has no
\* branch that binds base_loot
ComputeLootRaises(h) == h.kind = "Knox"

ComputeLoot(h) ==
    LET base_loot == IF h.current_stage # 100 THEN 1
                     ELSE IF h.kind = "Borge" THEN 700 + 500 + 60 + 50
                     ELSE 400 + 300 + 60 + 50
        stage_mult(x) == ApplyLootGrowth(x, h.current_stage + 1)
                             * (IF h.current_stage >= 101 THEN 5 ELSE 1)
    IN  stage_mult(base_loot * 100)

\* a variant of the tier shares: the rare tier takes 0.364, the shares sum to 1.1
AddLootUneven(h, loot) ==
    [h EXCEPT !.total_loot = @ + loot,
              !.loot_common = @ + MulDiv(loot, 379, 1000),
              !.loot_uncommon = @ + MulDiv(loot, 357, 1000),
              !.loot_rare = @ + MulDiv(loot, 364, 1000)]

\* Hunter.on_kill: the loot of one kill added to the totals
AddLoot(h, loot) ==
    [h EXCEPT !.total_loot = @ + loot,
              !.loot_common = @ + MulDiv(loot, 379, 1000),
              !.loot_uncommon = @ + MulDiv(loot, 357, 1000),
              !.loot_rare = @ + MulDiv(loot, 264, 1000)]

\* Hunter.on_kill: Call Me Lucky Loot multiplies the loot of a lucky kill
LuckyLoot(h, lucky, loot) ==
    IF (h.current_stage % 100 # 0 /\ h.current_stage > 0) /\ lucky
           /\ h.lv.call_me_lucky_loot > 0
    THEN MulDiv(loot, 10 + 2 * h.lv.call_me_lucky_loot, 10)
    ELSE loot

\* Hunter.on_kill
HunterOnKillLoot(h, lucky) == AddLoot(h, LuckyLoot(h, lucky, ComputeLoot(h)))

\* Borge.on_kill / Ozzy.on_kill / Knox.on_kill on the world w = [h, q, raised, rolls]:
\* loot by Hunter.on_kill, then the Unfair Advantage potion.  Each call consumes
\* one on-kill roll.
UnfairAdvantage(h, potion) ==
    IF potion /\ h.lv.unfair_advantage > 0
    THEN [HunterHealHp(h, MulDiv(h.max_hp, h.lv.unfair_advantage * 2, 100), "potion") EXCEPT
             !.total_potion = @ + MulDiv(h.max_hp, h.lv.unfair_advantage * 2, 100),
             !.empowered_regen = IF h.kind = "Ozzy" THEN @ + 5 ELSE @]
    ELSE h

HunterOnKill(w) ==
    IF w.raised THEN w
    ELSE IF ComputeLootRaises(w.h) THEN [w EXCEPT !.raised = TRUE]
    ELSE [w EXCEPT !.h = UnfairAdvantage(HunterOnKillLoot(w.h, Head(w.rolls).lucky),
                                         Head(w.rolls).potion),
                   !.rolls = Tail(@)]

-----------------------------------------------------------------------------
(* Enemy and Boss methods (units.py).  A method that touches the hunter or  *)
(* the queue takes the unit e and the world w = [h, q, raised, rolls] and   *)
(* returns both.  raised records an exception leaving the handler; the      *)
(* statements after the raising call are then skipped.                      *)

IsEnemyEvent(ev) == ev[3] \in {"enemy", "enemy_special"}

\* a variant of the purge of Enemy.on_death: only the 'enemy' events are dropped
PurgePrimaryOnly(q) == heapify(SelectSeq(q, LAMBDA ev : ev[3] # "enemy"))

\* a variant of the purge: the hunter's triggered attacks are dropped as well
PurgeTriggeredToo(q) ==
    heapify(SelectSeq(q, LAMBDA ev : ~IsEnemyEvent(ev) /\ ev[3] # "hunter_special"))

\* the queue after Enemy.on_death: the list comprehension, then heapify
PurgeEnemyEvents(q) == heapify(SelectSeq(q, LAMBDA ev : ~IsEnemyEvent(ev)))

\* Enemy.on_death, extended by Boss.on_death
LogEnrage(e, w) ==
    IF e.boss /\ ~w.raised
    THEN [w EXCEPT !.h.enrage_log = Append(@, e.enrage_stacks)]
    ELSE w

EnemyOnDeath(e, w) ==
    IF w.raised THEN w
    ELSE LogEnrage(e, HunterOnKill([w EXCEPT !.q = PurgeEnemyEvents(w.q),
                                             !.h.total_kills = @ + 1]))

\* Enemy.receive_damage
DieIfUnitDead(e, w, is_reflected) ==
    IF UnitIsDead(e)
    THEN [e |-> e,
          w |-> EnemyOnDeath(e, IF is_reflected
                                THEN [w EXCEPT !.h.helltouch_kills = @ + 1] ELSE w)]
    ELSE [e |-> e, w |-> w]

\* a variant of Enemy.receive_damage: a reflected hit rolls the evade as well
ReflectedEvadable(e, w, damage, is_reflected, evade) ==
    IF w.raised THEN [e |-> e, w |-> w]
    ELSE IF evade /\ e.evade_chance > 0 THEN [e |-> e, w |-> w]
    ELSE DieIfUnitDead([e EXCEPT !.hp = @ - Mitigate(damage, e.damage_reduction)],
                       w, is_reflected)

EnemyReceiveDamage(e, w, damage, is_reflected, evade) ==
    IF w.raised THEN [e |-> e, w |-> w]
    ELSE IF ~is_reflected /\ evade /\ e.evade_chance > 0 THEN [e |-> e, w |-> w]
    ELSE DieIfUnitDead([e EXCEPT !.hp = @ - Mitigate(damage, e.damage_reduction)],
                       w, is_reflected)

\* Enemy.kill; Boss.on_death takes no suppress_logging argument
EnemyKill(e, w) ==
    IF w.raised THEN [e |-> e, w |-> w]
    ELSE IF e.boss THEN [e |-> [e EXCEPT !.hp = 0], w |-> [w EXCEPT !.raised = TRUE]]
    ELSE [e |-> [e EXCEPT !.hp = 0], w |-> EnemyOnDeath([e EXCEPT !.hp = 0], w)]

\* a variant of Enemy.heal_hp: the heal is not clamped to the missing hp
EnemyHealUnclamped(e, value) == [e EXCEPT !.hp = @ + value]

\* Enemy.heal_hp
EnemyHealHp(e, value) == [e EXCEPT !.hp = @ + Min(value, e.max_hp - e.hp)]

\* Boss.apply_harden
ApplyHarden(e, enable) ==
    IF enable
    THEN [e EXCEPT !.harden_ticks_left = 5,
                   !.previous_dr = e.damage_reduction,
                   !.damage_reduction = 9500]
    ELSE [e EXCEPT !.damage_reduction = e.previous_dr]

\* Enemy.regen_hp and Boss.regen_hp
HardenTick(e) ==
    IF e.harden_ticks_left = 1
    THEN ApplyHarden([e EXCEPT !.harden_ticks_left = 0], FALSE)
    ELSE [e EXCEPT !.harden_ticks_left = @ - 1]

RegenHeal(e) ==
    IF e.boss /\ e.harden_ticks_left > 0
    THEN HardenTick(EnemyHealHp(EnemyHealHp(EnemyHealHp(e, e.regen), e.regen), e.regen))
    ELSE EnemyHealHp(e, e.regen)

DieOfRegen(e, w) ==
    IF UnitIsDead(e)
    THEN [e |-> e,
          w |-> EnemyOnDeath(e, IF e.boss THEN w ELSE [w EXCEPT !.h.medusa_kills = @ + 1])]
    ELSE [e |-> e, w |-> w]

EnemyRegenHp(e, w) == DieOfRegen(RegenHeal(e), w)

\* the hunter's on_create effects on a new unit (Enemy.on_create): Presence of
\* God (Borge.apply_pog, Knox.apply_pog) and Gift of Medusa (Ozzy.apply_medusa)
OnCreate(e, h) ==
    CASE h.kind = "Borge" ->
           [e EXCEPT !.hp = MulDiv(e.max_hp,
                                   1000 - h.lv.presence_of_god
                                              * (IF OnBossStage(h) THEN 20 ELSE 40), 1000)]
      [] h.kind = "Knox" ->
           [e EXCEPT !.power = MulDiv(e.power, 100 - h.lv.presence_of_god * 3, 100)]
      [] h.kind = "Ozzy" ->
           [e EXCEPT !.regen = e.regen - MulDiv(h.regen, h.lv.gift_of_medusa * 5, 100)]

\* Enemy.__init__ / Boss.__init__: create, on_create, then the boss's own fields
SetBasePower(e) == [e EXCEPT !.base_power = e.power]

NewUnit(id, h, stage, boss) == SetBasePower(OnCreate(CreateUnit(id, h.kind, stage, boss), h))

\* damage of a unit's attack: power, or power * special_damage on a crit
UnitDamage(e, crit) == IF crit THEN MulDiv(e.power, e.special_damage \div 1000, 1000) ELSE e.power

\* the outcomes of random.random() < special_chance
CritRolls(e) == IF e.special_chance >= 1000000 THEN {TRUE} ELSE BOOLEAN

\* Knox.receive_damage after the block: the damage left over is mitigated and taken
KnoxTake(h, left) ==
    IF left > 0
    THEN TakeDamage(h, left, Mitigate(left, h.damage_reduction))
    ELSE [h |-> h, final |-> 0]

\* Ozzy.receive_damage: Dance of Dashes grants a trickster charge on a crit taken
DanceOfDashes(d, h, is_crit, r) ==
    IF is_crit /\ h.lv.dance_of_dashes > 0 /\ r.dod
    THEN [d EXCEPT !.h.trickster_charges = @ + 1]
    ELSE d

\* a variant of the hunter's part of receive_damage: Knox's block negates the
\* hit the way an evade does
BlockNegates(h, damage, is_crit, r) ==
    IF h.kind = "Knox" /\ r.block
    THEN [h |-> [h EXCEPT !.total_blocked = @ + damage], final |-> 0]
    ELSE IF h.kind = "Knox" THEN KnoxTake(h, damage)
    ELSE HunterReceiveDamage(h, damage, r.evade)

\* the hunter's own part of receive_damage, up to and including on_death:
\* Borge.receive_damage before the reflection, Ozzy.receive_damage,
\* Knox.receive_damage.  r holds the rolls evade, block and dod.
Defend(h, damage, is_crit, r) ==
    CASE h.kind = "Borge" ->
           HunterReceiveDamage(h,
               IF is_crit THEN MulDiv(damage, 100 - h.lv.weakspot_analysis * 11, 100) ELSE damage,
               r.evade)
      [] h.kind = "Ozzy" ->
           IF h.trickster_charges > 0
           THEN [h |-> [h EXCEPT !.trickster_charges = @ - 1,
                                 !.total_trickster_evades = @ + 1],
                 final |-> 0]
           ELSE DanceOfDashes(HunterReceiveDamage(h, damage, r.evade), h, is_crit, r)
      [] h.kind = "Knox" ->
           KnoxTake([h EXCEPT !.total_blocked =
                                  @ + (IF r.block THEN MulDiv(damage, 5, 10) ELSE 0)],
                    damage - (IF r.block THEN MulDiv(damage, 5, 10) ELSE 0))

\* a variant of the reflection: it reflects also when the hit killed the hunter
ReflectDead(e, w, final_damage) ==
    IF w.h.kind = "Borge" /\ final_damage > 0
    THEN EnemyReceiveDamage(e, w,
             MulDiv(final_damage, w.h.lv.helltouch_barrier * 8,
                    IF OnBossStage(w.h) THEN 1000 ELSE 100),
             TRUE, FALSE)
    ELSE [e |-> e, w |-> w]

\* Borge.receive_damage after the hit: Helltouch Barrier reflects onto the attacker
Reflect(e, w, final_damage) ==
    IF w.h.kind = "Borge" /\ ~HunterIsDead(w.h) /\ final_damage > 0
    THEN EnemyReceiveDamage(e, w,
             MulDiv(final_damage, w.h.lv.helltouch_barrier * 8,
                    IF OnBossStage(w.h) THEN 1000 ELSE 100),
             TRUE, FALSE)
    ELSE [e |-> e, w |-> w]

\* the reflection on the outcome d = [h, final] of the hunter's own part
ReflectAfter(e, w, d) == Reflect(e, [w EXCEPT !.h = d.h], d.final)

\* hunter.receive_damage(attacker, damage, is_crit) for the three classes
HunterHit(e, w, damage, is_crit, r) == ReflectAfter(e, w, Defend(w.h, damage, is_crit, r))

\* Enemy.attack
EnemyAttack(e, w, r) == HunterHit(e, w, UnitDamage(e, r.crit), r.crit, r)

\* a variant of the threshold test: the max_enrage flag is not read, so the
\* current power is tripled again on every attack past the threshold
MaxEnrageAgain(e) ==
    IF e.enrage_stacks >= 200
    THEN [e EXCEPT !.max_enrage = TRUE,
                   !.power = e.power * 3,
                   !.special_chance = 1000000]
    ELSE e

\* the threshold test of Boss.attack
MaxEnrage(e) ==
    IF e.enrage_stacks >= 200 /\ ~e.max_enrage
    THEN [e EXCEPT !.max_enrage = TRUE,
                   !.power = e.base_power * 3,
                   !.special_chance = 1000000]
    ELSE e

\* a variant of the enrage step: no stack is added
EnrageNoStack(e) == MaxEnrage(e)

\* the enrage step of Boss.attack: one more stack, then the threshold test
Enrage(e) == MaxEnrage([e EXCEPT !.enrage_stacks = @ + 1])

\* Boss.attack after Enemy.attack returned a = [e, w]
EnrageAfter(a) == IF a.w.raised THEN a ELSE [a EXCEPT !.e = Enrage(a.e)]

\* Boss.attack: Enemy.attack, then the enrage step
BossAttack(e, w, r) == EnrageAfter(EnemyAttack(e, w, r))

\* Boss.attack_special of Gothmorgor after the hit returned a = [e, w]
StackAfter(a) == IF a.w.raised THEN a ELSE [a EXCEPT !.e.enrage_stacks = @ + 1]

\* Boss.attack_special
BossAttackSpecial(e, w, r) ==
    IF e.secondary_attack = "gothmorgor"
    THEN StackAfter(HunterHit(e, w, UnitDamage(e, r.crit), r.crit, r))
    ELSE [e |-> ApplyHarden([e EXCEPT !.enrage_stacks = @ + 5], TRUE), w |-> w]

-----------------------------------------------------------------------------
(* The hunters' attacks.  es is sim.enemies with the target first; the      *)
(* result is [es, w].                                                       *)

\* the target es[1] replaced by the outcome a = [e, w] of a call on it
OnTarget(es, a) == [es |-> [es EXCEPT ![1] = a.e], w |-> a.w]

\* target.receive_damage(damage) of Hunter.attack on the target es[1]
HunterAttack(es, w, damage, evade) ==
    OnTarget(es, EnemyReceiveDamage(es[1], w, damage, FALSE, evade))

\* one more kill counted on the outcome of the rest of the loop
CountKill(rest) == [rest EXCEPT !.kills = @ + 1]

\* the loop of Borge.apply_trample: kill the first n enemies of es that are alive
RECURSIVE KillAlive(_, _, _, _)
KilledAt(es, k, i, n) == CountKill(KillAlive([es EXCEPT ![i] = k.e], k.w, i + 1, n - 1))

KillAlive(es, w, i, n) ==
    IF i > Len(es) \/ n = 0 THEN [es |-> es, w |-> w, kills |-> 0]
    ELSE IF UnitIsDead(es[i]) THEN KillAlive(es, w, i + 1, n)
    ELSE KilledAt(es, EnemyKill(es[i], w), i, n)

\* Simulation.refresh_enemies
RefreshEnemies(es) == SelectSeq(es, LAMBDA e : ~UnitIsDead(e))

\* Borge.apply_trample after the loop: refresh_enemies, the kills counted
Trampled(first, others) ==
    [es |-> RefreshEnemies(others.es), w |-> others.w,
     kills |-> 1 + others.kills, target |-> first.e]

\* Borge.apply_trample after current_target.kill() returned first = [e, w]
TrampleOthers(es, first, trample_power) ==
    Trampled(first, KillAlive([es EXCEPT ![1] = first.e], first.w, 1, trample_power))

\* Borge.apply_trample; target is the attacked unit after the call
ApplyTrample(es, w, damage) ==
    IF Min(damage \div es[1].max_hp, 10) > 1
    THEN TrampleOthers(es, EnemyKill(es[1], w), Min(damage \div es[1].max_hp, 10))
    ELSE [es |-> es, w |-> w, kills |-> 0, target |-> es[1]]

\* power * special_damage of a hunter
HunterCritDamage(h) == MulDiv(h.power, h.special_damage \div 1000, 1000)

\* Borge.attack: Life of the Hunt
LifeOfTheHunt(h, damage, proc) ==
    IF proc /\ h.lv.life_of_the_hunt > 0
    THEN [HunterHealHp(h, MulDiv(damage, h.lv.life_of_the_hunt * 6, 100), "loth") EXCEPT
             !.total_loth = @ + MulDiv(damage, h.lv.life_of_the_hunt * 6, 100)]
    ELSE h

\* Borge.apply_fow
ApplyFow(h, proc) ==
    IF proc /\ h.lv.fires_of_war > 0
    THEN [h EXCEPT !.fires_of_war = h.lv.fires_of_war * 100000]
    ELSE h

\* a variant of the stun's event: it has the priority of a triggered attack
QueueStunLate(q) == heappush(q, <<0, 1, "stun">>)

\* hpush(self.sim.queue, (0, 0, 'stun')) of Borge.attack and Ozzy.attack
QueueStun(q) == heappush(q, <<0, 0, "stun">>)

\* the on_attack effects that close Borge.attack
BorgeOnAttack(w, damage, r) ==
    [w EXCEPT
       !.h = ApplyFow(LifeOfTheHunt(
                          HunterHealHp(w.h, MulDiv(damage, w.h.lifesteal, 10000), "steal"),
                          damage, r.loth),
                      r.fow),
       !.q = IF r.stun /\ w.h.lv.stun > 0 THEN QueueStun(w.q) ELSE w.q]

\* Borge.attack after apply_trample returned t: trample_kills > 1 counts the
\* kills, else Hunter.attack hits the target
AfterTrample(t, damage, r) ==
    IF t.kills > 1
    THEN [es |-> t.es, w |-> [t.w EXCEPT !.h.trample_kills = @ + t.kills]]
    ELSE IF t.kills = 0
    THEN HunterAttack(t.es, t.w, damage, r.eevade)
    ELSE [es |-> t.es, w |-> EnemyReceiveDamage(t.target, t.w, damage, FALSE, r.eevade).w]

\* Borge.attack after the hit
BorgeAttacked(hit, damage, r) ==
    IF hit.w.raised THEN hit
    ELSE [es |-> hit.es, w |-> BorgeOnAttack(hit.w, damage, r)]

\* Borge.attack with the damage rolled
BorgeAttackWith(es, w, damage, r) ==
    BorgeAttacked(IF w.h.lv.trample /\ ~es[1].boss /\ damage > es[1].max_hp
                  THEN AfterTrample(ApplyTrample(es, w, damage), damage, r)
                  ELSE HunterAttack(es, w, damage, r.eevade),
                  damage, r)

\* Borge.attack
BorgeAttack(es, w, r) ==
    BorgeAttackWith(es, w, IF r.crit THEN HunterCritDamage(w.h) ELSE w.h.power, r)

\* Ozzy.attack after the hit: lifesteal, Crippling Shots, and on_kill again
\* when the target is dead
OzzyAttacked(hit, damage, r) ==
    IF hit.w.raised THEN hit
    ELSE IF UnitIsDead(hit.es[1])
    THEN [es |-> hit.es, w |-> HunterOnKill(hit.w)]
    ELSE hit

\* Ozzy.attack: lifesteal and Crippling Shots on the outcome of the hit
OzzyOnAttack(hit, damage, r) ==
    IF hit.w.raised THEN hit
    ELSE [hit EXCEPT
            !.w.h = [HunterHealHp(hit.w.h, MulDiv(damage, hit.w.h.lifesteal, 10000), "steal")
                       EXCEPT !.crippling_on_target =
                                 IF r.cripple /\ hit.w.h.lv.crippling_shots > 0
                                 THEN @ + hit.w.h.lv.crippling_shots ELSE @]]

\* Ozzy.attack: the damage on the target, Omen of Decay and Crippling Shots added
OzzyDamage(h, target, damage) ==
    MulDiv(damage + MulDiv(target.hp, h.lv.omen_of_decay * 8,
                           IF OnBossStage(h) THEN 10000 ELSE 1000),
           100 + h.crippling_on_target * 3, 100)

\* Ozzy.attack from the damage on: hit, on_attack effects, on_kill
OzzyHit(es, w, damage, r) ==
    OzzyAttacked(
        OzzyOnAttack(
            HunterAttack(es, [w EXCEPT !.h.crippling_on_target = 0],
                         OzzyDamage(w.h, es[1], damage), r.eevade),
            damage, r),
        damage, r)

\* Ozzy.attack, a main attack: Trickster's Boon, Multistrike, Thousand Needles
\* and Echo Bullets are rolled and queued before the hit
OzzyMain(es, w, r) ==
    LET h == w.h
        tb == r.trick /\ h.lv.tricksters_boon > 0
        st == r.stun /\ h.lv.stun > 0
        ec == r.echo /\ h.lv.echo_bullets > 0
        aq1 == IF r.ms THEN <<"(MS)">> ELSE <<>>
        q1 == IF r.ms THEN heappush(w.q, <<0, 1, "hunter_special">>) ELSE w.q
        q2 == IF st THEN QueueStun(q1) ELSE q1
    IN  OzzyHit(es,
                [w EXCEPT !.h.attack_queue = IF ec THEN Append(aq1, "(ECHO)") ELSE aq1,
                          !.h.trickster_charges = IF tb THEN @ + 1 ELSE @,
                          !.q = IF ec THEN heappush(q2, <<0, 2, "hunter_special">>) ELSE q2],
                h.power, r)

\* Ozzy.attack, the triggered attack at the head of attack_queue
OzzyTriggered(es, w, r) ==
    LET h == w.h
        atk_type == Head(h.attack_queue)
        ms == atk_type = "(ECHO)" /\ r.ms
    IN  OzzyHit(es,
                [w EXCEPT !.h.attack_queue =
                              IF ms THEN Append(Tail(@), "(ECHO-MS)") ELSE Tail(@),
                          !.q = IF ms THEN heappush(@, <<0, 3, "hunter_special">>) ELSE @],
                CASE atk_type = "(MS)" -> HunterCritDamage(h)
                  [] atk_type = "(ECHO)" -> MulDiv(h.power, h.lv.echo_bullets * 5, 100)
                  [] atk_type = "(ECHO-MS)" -> HunterCritDamage(h),
                r)

\* a variant of Ozzy.attack: every attack is a main attack
OzzyAlwaysMain(es, w, r) == OzzyMain(es, w, r)

\* Ozzy.attack: a main attack when attack_queue is empty, else a triggered one
OzzyAttack(es, w, r) ==
    IF w.h.attack_queue = <<>> THEN OzzyMain(es, w, r) ELSE OzzyTriggered(es, w, r)

\* Knox.attack: a salvo of projectiles, charged of them charged
KnoxAttack(es, w, r) ==
    LET h == w.h
        num_projectiles == h.salvo_projectiles
                               + (IF h.lv.ghost_bullets > 0 /\ r.ghost THEN 1 ELSE 0)
        bullet_damage == h.power \div h.salvo_projectiles
        charged_damage == MulDiv(bullet_damage, (1000000 + h.charge_gained) \div 1000, 1000)
        charged == Min(r.charged, num_projectiles)
    IN  HunterAttack(es, w,
            (num_projectiles - charged) * bullet_damage + charged * charged_damage,
            r.eevade)

-----------------------------------------------------------------------------
(* The run (Simulation, sim.py): one queue, popped in (time, priority)      *)
(* order; each event is dispatched to the unit's method and attack events   *)
(* are rescheduled one attack interval later.                               *)

EnemiesPerStage == 2
HunterPriority == 1
EnemyPriority == 2
RegenPriority == 3
RegenPeriod == 1000

\* the levels of the empty build
NoLevels ==
    [hp |-> 0, power |-> 0, stun |-> 0, lifesteal |-> 0, death_is_my_companion |-> 0,
     unfair_advantage |-> 0, call_me_lucky_loot |-> 0, presence_of_god |-> 0,
     gift_of_medusa |-> 0, weakspot_analysis |-> 0, dance_of_dashes |-> 0,
     helltouch_barrier |-> 0, life_of_the_hunt |-> 0, fires_of_war |-> 0,
     trample |-> FALSE, tricksters_boon |-> 0, echo_bullets |-> 0, omen_of_decay |-> 0,
     crippling_shots |-> 0, ghost_bullets |-> 0, damage_reduction |-> 0]

\* Simulation.spawn_enemies: a boss on a boss stage, else the stage's enemies
SpawnEnemies(h) ==
    [i \in 1..(IF OnBossStage(h) THEN 1 ELSE EnemiesPerStage) |->
        NewUnit(<<h.current_stage, i>>, h, h.current_stage, OnBossStage(h))]

\* variant of Enemy.queue_initial_attack: every boss queues a secondary attack
QueueSpecialOfBoss(e, q, now) ==
    IF e.boss
    THEN heappush(q, <<RoundMs(now * 1000 + UnitSpeed2(e)), EnemyPriority, "enemy_special">>)
    ELSE q

\* Enemy.queue_initial_attack
QueueSpecialAttack(e, q, now) ==
    IF e.has_special
    THEN heappush(q, <<RoundMs(now * 1000 + UnitSpeed2(e)), EnemyPriority, "enemy_special">>)
    ELSE q

QueueInitialAttack(e, q, now) ==
    QueueSpecialAttack(e,
        heappush(q, <<RoundMs(now * 1000 + UnitSpeed(e)), EnemyPriority, "enemy">>), now)

\* Borge.speed / Ozzy.speed / Knox.speed (getters), in microseconds
HunterSpeed(h) == IF h.kind = "Borge" THEN h.speed - h.fires_of_war ELSE h.speed

\* the hunter after its speed was read: Borge.speed resets Fires of War
AfterSpeedRead(h) == IF h.kind = "Borge" THEN [h EXCEPT !.fires_of_war = 0] ELSE h

\* Enemy.stun on the queue; raises IndexError when no 'enemy' event is pending
StunRaises(q) == \A i \in 1..Len(q) : q[i][3] # "enemy"

\* a variant of Enemy.stun: the attack found is removed and never reinserted
StunCancels(q, duration) ==
    SelectSeq(q, LAMBDA ev : ev[3] # "enemy")

StunQueue(q, duration) ==
    LET i == CHOOSE j \in 1..Len(q) :
                 q[j][3] = "enemy" /\ \A k \in 1..(j - 1) : q[k][3] # "enemy"
        qe == q[i]
        \* list.remove: the first element equal to qe, the order of the rest kept
        f == CHOOSE j \in 1..Len(q) : q[j] = qe /\ \A k \in 1..(j - 1) : q[k] # qe
        removed == SubSeq(q, 1, f - 1) \o SubSeq(q, f + 1, Len(q))
    IN  heappush(removed, <<qe[1] + duration, qe[2], qe[3]>>)

\* Borge.apply_stun / Ozzy.apply_stun: the stun duration in ms
StunDuration(h, is_boss) ==
    IF h.kind = "Borge"
    THEN (h.lv.stun * 100) \div (IF is_boss THEN 2 ELSE 1)
    ELSE (h.lv.stun * 50) \div (IF is_boss THEN 2 ELSE 1)

\* Borge.regen_hp / Ozzy.regen_hp / Knox.regen_hp
HunterRegenHp(h) ==
    IF h.kind = "Ozzy" /\ h.empowered_regen > 0
    THEN HunterHealHp([h EXCEPT !.empowered_regen = @ - 1], h.regen, "regen")
    ELSE HunterHealHp(h, h.regen, "regen")

\* hunter.attack(enemy) for the three classes
Attack(es, w, r) ==
    CASE w.h.kind = "Borge" -> BorgeAttack(es, w, r)
      [] w.h.kind = "Ozzy" -> OzzyAttack(es, w, r)
      [] w.h.kind = "Knox" -> KnoxAttack(es, w, r)

-----------------------------------------------------------------------------
(* Rolls: the outcomes of the random draws one handler can consume.         *)

Opt(possible) == IF possible THEN BOOLEAN ELSE {FALSE}

NoRolls ==
    [crit |-> FALSE, evade |-> FALSE, block |-> FALSE, dod |-> FALSE, eevade |-> FALSE,
     loth |-> FALSE, stun |-> FALSE, fow |-> FALSE, trick |-> FALSE, ms |-> FALSE,
     echo |-> FALSE, cripple |-> FALSE, ghost |-> FALSE, charged |-> 0]

\* the rolls of hunter.attack(e)
AttackRolls(h, e) ==
    [crit : Opt(h.kind = "Borge"), evade : {FALSE}, block : {FALSE}, dod : {FALSE},
     eevade : Opt(e.evade_chance > 0),
     loth : Opt(h.kind = "Borge" /\ h.lv.life_of_the_hunt > 0),
     stun : Opt(h.kind # "Knox" /\ h.lv.stun > 0 /\ (h.kind = "Borge" \/ h.attack_queue = <<>>)),
     fow : Opt(h.kind = "Borge" /\ h.lv.fires_of_war > 0),
     trick : Opt(h.kind = "Ozzy" /\ h.lv.tricksters_boon > 0 /\ h.attack_queue = <<>>),
     ms : Opt(h.kind = "Ozzy" /\ (h.attack_queue = <<>> \/ Head(h.attack_queue) = "(ECHO)")),
     echo : Opt(h.kind = "Ozzy" /\ h.lv.echo_bullets > 0 /\ h.attack_queue = <<>>),
     cripple : Opt(h.kind = "Ozzy" /\ h.lv.crippling_shots > 0),
     ghost : Opt(h.kind = "Knox" /\ h.lv.ghost_bullets > 0),
     charged : IF h.kind = "Knox" THEN 0..(h.salvo_projectiles + 1) ELSE {0}]

\* the rolls of enemy.attack(hunter)
DefenceRolls(h, e) ==
    [crit : CritRolls(e),
     evade : Opt(h.kind = "Borge" \/ (h.kind = "Ozzy" /\ h.trickster_charges = 0)),
     block : Opt(h.kind = "Knox"),
     dod : Opt(h.kind = "Ozzy" /\ h.lv.dance_of_dashes > 0 /\ h.trickster_charges = 0),
     eevade : {FALSE}, loth : {FALSE}, stun : {FALSE}, fow : {FALSE}, trick : {FALSE},
     ms : {FALSE}, echo : {FALSE}, cripple : {FALSE}, ghost : {FALSE}, charged : {0}]

\* the on-kill rolls (Call Me Lucky Loot, Unfair Advantage) of up to n kills
KillRolls(h, n) ==
    [1..n -> [potion : Opt(h.lv.unfair_advantage > 0),
              lucky : Opt(h.lv.call_me_lucky_loot > 0)]]

\* the outcome of every draw when none succeeds; a unit whose special_chance
\* is 1 always crits
DefaultAttackRolls == NoRolls
DefaultDefenceRolls(e) == [NoRolls EXCEPT !.crit = e.special_chance >= 1000000]
DefaultKillRolls(n) == [i \in 1..n |-> [potion |-> FALSE, lucky |-> FALSE]]

\* the most on_kill calls one handler can make
MaxKills == EnemiesPerStage + 2

\* the world a handler starts in: the event popped, nothing raised
World(rolls) == [h |-> hunter, q |-> heappop(queue), raised |-> FALSE, rolls |-> rolls]

\* the units of es alive before the handler and dead or gone after it
DeathsBetween(es, es2) ==
    Cardinality({i \in 1..Len(es) :
                    /\ ~UnitIsDead(es[i])
                    /\ ~\E j \in 1..Len(es2) : es2[j].id = es[i].id /\ ~UnitIsDead(es2[j])})

-----------------------------------------------------------------------------
(* The events of a run.  Each action is one turn of the main loop: pop the  *)
(* earliest event, dispatch it, reschedule it.                              *)

Running == status = "running"

\* the loop's condition to dispatch the event at the head of the queue
CanDispatch(kind) ==
    /\ Running
    /\ ~HunterIsDead(hunter)
    /\ enemies # <<>>
    /\ ~UnitIsDead(enemies[1])
    /\ queue # <<>>
    /\ queue[1][1] <= time_budget
    /\ queue[1][3] = kind

\* the rolls a handler may draw: the default ones, or any while free_rolls lasts
Draw(r, kr, default) ==
    IF r = default /\ kr = DefaultKillRolls(MaxKills)
    THEN free_rolls' = free_rolls
    ELSE free_rolls > 0 /\ free_rolls' = free_rolls - 1

\* the state a handler leaves: es and w are its result, q2 the queue after the
\* reschedule, was_dead tells that the hunter was dead inside the handler
Commit(es, w, q2, was_dead) ==
    /\ hunter' = w.h
    /\ enemies' = es
    /\ queue' = IF w.raised THEN w.q ELSE q2
    /\ status' = IF w.raised THEN "raised" ELSE status
    /\ elapsed_time' = Max(elapsed_time, queue[1][1])
    /\ deaths' = deaths + DeathsBetween(enemies, es)
    /\ on_kills' = on_kills + (MaxKills - Len(w.rolls))
    /\ dead_seen' = (dead_seen \/ was_dead)
    /\ UNCHANGED time_budget
    /\ UNCHANGED notsim

\* the hunter's attack a = [es, w] is done: the next one is queued one interval later
HunterAttackDone(a) ==
    Commit(a.es, [a.w EXCEPT !.h = IF a.w.raised THEN @ ELSE AfterSpeedRead(@)],
           heappush(a.w.q, <<RoundMs(queue[1][1] * 1000 + HunterSpeed(a.w.h)),
                             HunterPriority, "hunter">>),
           FALSE)

\* 'hunter': hunter.attack(enemy), then the next attack one interval later
HunterEvent ==
    /\ CanDispatch("hunter")
    /\ \E r \in AttackRolls(hunter, enemies[1]), kr \in KillRolls(hunter, MaxKills) :
          /\ Draw(r, kr, DefaultAttackRolls)
          /\ HunterAttackDone(Attack(enemies, World(kr), r))

\* the triggered attack a = [es, w] is done
TriggeredAttackDone(a) == Commit(a.es, a.w, a.w.q, FALSE)

\* 'hunter_special': a triggered attack, not rescheduled
HunterSpecialEvent ==
    /\ CanDispatch("hunter_special")
    /\ \E r \in AttackRolls(hunter, enemies[1]), kr \in KillRolls(hunter, MaxKills) :
          /\ Draw(r, kr, DefaultAttackRolls)
          /\ TriggeredAttackDone(Attack(enemies, World(kr), r))

\* hunter.apply_stun on the world w: Enemy.stun moves the enemy's next attack
StunDone(w) ==
    IF StunRaises(w.q)
    THEN Commit(enemies, [w EXCEPT !.raised = TRUE], w.q, FALSE)
    ELSE Commit(enemies,
                [w EXCEPT !.h.total_stuntime_inflicted =
                              @ + StunDuration(hunter, enemies[1].boss)],
                StunQueue(w.q, StunDuration(hunter, enemies[1].boss)), FALSE)

\* 'stun': hunter.apply_stun(enemy, is_boss), which calls Enemy.stun
StunEvent ==
    /\ CanDispatch("stun")
    /\ StunDone(World(DefaultKillRolls(MaxKills)))
    /\ UNCHANGED free_rolls

\* the enemy's attack a = [e, w] is done: the next one is queued at time next if
\* the enemy lives; d is the hunter's own part of receive_damage
EnemyAttackDone(a, d, next, kind) ==
    Commit([enemies EXCEPT ![1] = a.e], a.w,
           IF UnitIsDead(a.e) THEN a.w.q
           ELSE heappush(a.w.q, <<RoundMs(queue[1][1] * 1000 + next), EnemyPriority, kind>>),
           HunterIsDead(d.h))

\* 'enemy': enemy.attack(hunter), then the next attack if the enemy lives
PrimaryDone(a, d) == EnemyAttackDone(a, d, UnitSpeed(a.e), "enemy")

EnemyEvent ==
    /\ CanDispatch("enemy")
    /\ \E r \in DefenceRolls(hunter, enemies[1]), kr \in KillRolls(hunter, MaxKills) :
          /\ Draw(r, kr, DefaultDefenceRolls(enemies[1]))
          /\ PrimaryDone(IF enemies[1].boss THEN BossAttack(enemies[1], World(kr), r)
                                            ELSE EnemyAttack(enemies[1], World(kr), r),
                         Defend(hunter, UnitDamage(enemies[1], r.crit), r.crit, r))

\* 'enemy_special': boss.attack_special(hunter), then the next one
SecondaryDone(a, d) == EnemyAttackDone(a, d, UnitSpeed2(a.e), "enemy_special")

EnemySpecialEvent ==
    /\ CanDispatch("enemy_special")
    /\ \E r \in DefenceRolls(hunter, enemies[1]), kr \in KillRolls(hunter, MaxKills) :
          /\ Draw(r, kr, DefaultDefenceRolls(enemies[1]))
          /\ SecondaryDone(BossAttackSpecial(enemies[1], World(kr), r),
                           IF enemies[1].secondary_attack = "gothmorgor"
                           THEN Defend(hunter, UnitDamage(enemies[1], r.crit), r.crit, r)
                           ELSE [h |-> hunter, final |-> 0])

\* the tick a = [e, w] is done: the next one is queued a period later
RegenDone(a) ==
    Commit([enemies EXCEPT ![1] = a.e], a.w,
           heappush(a.w.q, <<queue[1][1] + RegenPeriod, RegenPriority, "regen">>), FALSE)

\* hunter.regen_hp() on the world
RegenHunter(w) == [w EXCEPT !.h = HunterRegenHp(w.h)]

\* 'regen': the once-a-second tick of hunter.regen_hp and enemy.regen_hp
RegenEvent ==
    /\ CanDispatch("regen")
    /\ \E kr \in KillRolls(hunter, MaxKills) :
          /\ Draw(DefaultAttackRolls, kr, DefaultAttackRolls)
          /\ RegenDone(EnemyRegenHp(enemies[1], RegenHunter(World(kr))))

\* the target is dead: the next enemy of the stage steps up, or the stage is
\* complete and the next stage's enemies (or boss) are spawned; the clock is kept
AdvanceTarget ==
    /\ Running
    /\ ~HunterIsDead(hunter)
    /\ IF enemies = <<>> THEN TRUE ELSE UnitIsDead(enemies[1])
    /\ hunter' = IF RefreshEnemies(enemies) # <<>> THEN hunter
                 ELSE HunterCompleteStage(hunter, 1)
    /\ enemies' = IF RefreshEnemies(enemies) # <<>> THEN RefreshEnemies(enemies)
                  ELSE SpawnEnemies(hunter')
    /\ queue' = QueueInitialAttack(enemies'[1], queue, elapsed_time)
    /\ UNCHANGED <<elapsed_time, status, time_budget, free_rolls, deaths, on_kills, dead_seen>>
    /\ UNCHANGED notsim

\* the run ends: the hunter is dead, or the earliest event is past the budget
Finish ==
    /\ Running
    /\ \/ HunterIsDead(hunter)
       \/ /\ enemies # <<>> /\ ~UnitIsDead(enemies[1])
          /\ queue # <<>> /\ queue[1][1] > time_budget
    /\ status' = "finished"
    /\ UNCHANGED <<hunter, enemies, queue, elapsed_time, time_budget, free_rolls,
                   deaths, on_kills, dead_seen>>
    /\ UNCHANGED notsim

\* the builds and starting stages of the runs explored
Scenarios ==
    { [kind |-> "Borge", lv |-> NoLevels, stage |-> 0, budget |-> 20000, rolls |-> 2],
      [kind |-> "Borge", lv |-> [NoLevels EXCEPT !.power = 22, !.trample = TRUE, !.stun = 1],
       stage |-> 0, budget |-> 12000, rolls |-> 2],
      [kind |-> "Borge",
       lv |-> [NoLevels EXCEPT !.death_is_my_companion = 1, !.helltouch_barrier = 10,
                               !.unfair_advantage = 5, !.power = 100],
       stage |-> 30, budget |-> 30000, rolls |-> 2],
      [kind |-> "Borge",
       lv |-> [NoLevels EXCEPT !.helltouch_barrier = 10, !.unfair_advantage = 5,
                               !.power = 160],
       stage |-> 30, budget |-> 9000, rolls |-> 1],
      [kind |-> "Ozzy", lv |-> [NoLevels EXCEPT !.power = 30],
       stage |-> 0, budget |-> 12000, rolls |-> 2],
      [kind |-> "Ozzy",
       lv |-> [NoLevels EXCEPT !.echo_bullets = 1, !.stun = 1, !.dance_of_dashes = 1],
       stage |-> 0, budget |-> 9000, rolls |-> 2],
      [kind |-> "Knox", lv |-> [NoLevels EXCEPT !.death_is_my_companion = 1],
       stage |-> 30, budget |-> 20000, rolls |-> 2],
      [kind |-> "Knox", lv |-> [NoLevels EXCEPT !.power = 30],
       stage |-> 0, budget |-> 12000, rolls |-> 1],
      [kind |-> "Knox", lv |-> [NoLevels EXCEPT !.damage_reduction = 10],
       stage |-> 0, budget |-> 9000, rolls |-> 2],
      [kind |-> "Borge", lv |-> [NoLevels EXCEPT !.presence_of_god = 2],
       stage |-> 170, budget |-> 10000, rolls |-> 1],
      [kind |-> "Borge", lv |-> [NoLevels EXCEPT !.hp = 5500],
       stage |-> 100, budget |-> 1300000, rolls |-> 0],
      [kind |-> "Borge",
       lv |-> [NoLevels EXCEPT !.hp = 20000, !.stun = 2, !.helltouch_barrier = 5],
       stage |-> 200, budget |-> 30000, rolls |-> 2],
      [kind |-> "Ozzy", lv |-> [NoLevels EXCEPT !.hp = 8200],
       stage |-> 200, budget |-> 600000, rolls |-> 0],
      [kind |-> "Borge", lv |-> [NoLevels EXCEPT !.hp = 20000, !.power = 1600],
       stage |-> 199, budget |-> 16000, rolls |-> 0],
      [kind |-> "Knox", lv |-> NoLevels, stage |-> 200, budget |-> 9000, rolls |-> 1],
      [kind |-> "Borge", lv |-> [NoLevels EXCEPT !.hp = 20000, !.power = 1600],
       stage |-> 99, budget |-> 16000, rolls |-> 0] }

\* Simulation.__init__ and the start of Simulation.run for scenario s
Start(s) ==
    /\ hunter = HunterCompleteStage(NewHunter(s.kind, s.lv), s.stage)
    /\ enemies = SpawnEnemies(hunter)
    /\ queue = QueueInitialAttack(enemies[1],
                   heappush(heappush(<<>>, <<RoundMs(HunterSpeed(hunter)),
                                             HunterPriority, "hunter">>),
                            <<RegenPeriod, RegenPriority, "regen">>),
                   0)
    /\ elapsed_time = 0
    /\ status = "running"
    /\ time_budget = s.budget
    /\ free_rolls = s.rolls
    /\ deaths = 0
    /\ on_kills = 0
    /\ dead_seen = FALSE

Init == (\E s \in Scenarios : Start(s)) /\ BuildIdle /\ StatIdle /\ BatchIdle /\ GuiIdle /\ WalkIdle /\ StunIdle /\ HardenIdle /\ PaceIdle /\ TabIdle

Next ==
    \/ HunterEvent
    \/ HunterSpecialEvent
    \/ StunEvent
    \/ EnemyEvent
    \/ EnemySpecialEvent
    \/ RegenEvent
    \/ AdvanceTarget
    \/ Finish

Spec == Init /\ [][Next]_vars

\* no simulation is under way
SimIdle ==
    /\ hunter = NewHunter("Borge", NoLevels)
    /\ enemies = <<>>
    /\ queue = <<>>
    /\ elapsed_time = 0
    /\ status = "finished"
    /\ time_budget = 0
    /\ free_rolls = 0
    /\ deaths = 0
    /\ on_kills = 0
    /\ dead_seen = FALSE

-----------------------------------------------------------------------------
(* Building a hunter from a build config (hunters.py).  A config is the     *)
(* class named by its meta section, the sections it has, the keys           *)
(* <<section, name>> its sections hold and the levels lv of the keys the    *)
(* model varies; every other key it holds is at level 0, as in load_dummy.  *)

\* the keys __create__ reads with a subscript, d[key]
Subscripted(kind) ==
    CASE kind = "Borge" ->
           {<<"stats", "hp">>, <<"stats", "power">>, <<"stats", "regen">>,
            <<"stats", "damage_reduction">>, <<"stats", "evade_chance">>,
            <<"stats", "effect_chance">>, <<"stats", "special_chance">>,
            <<"stats", "special_damage">>, <<"stats", "speed">>,
            <<"talents", "impeccable_impacts">>,
            <<"attributes", "soul_of_ares">>, <<"attributes", "essence_of_ylith">>,
            <<"attributes", "spartan_lineage">>, <<"attributes", "superior_sensors">>,
            <<"attributes", "explosive_punches">>, <<"attributes", "book_of_baal">>,
            <<"inscryptions", "i3">>, <<"inscryptions", "i4">>, <<"inscryptions", "i11">>,
            <<"inscryptions", "i13">>, <<"inscryptions", "i23">>, <<"inscryptions", "i24">>,
            <<"inscryptions", "i27">>, <<"inscryptions", "i60">>,
            <<"relics", "disk_of_dawn">>, <<"relics", "long_range_artillery_crawler">>,
            <<"gems", "creation_node_#1">>, <<"gems", "creation_node_#2">>,
            <<"gems", "creation_node_#3">>, <<"gems", "innovation_node_#3">>,
            <<"meta", "level">>}
      [] kind = "Ozzy" ->
           {<<"stats", "hp">>, <<"stats", "power">>, <<"stats", "regen">>,
            <<"stats", "damage_reduction">>, <<"stats", "evade_chance">>,
            <<"stats", "effect_chance">>, <<"stats", "special_chance">>,
            <<"stats", "special_damage">>, <<"stats", "speed">>,
            <<"talents", "thousand_needles">>,
            <<"attributes", "living_off_the_land">>, <<"attributes", "exo_piercers">>,
            <<"attributes", "wings_of_ibu">>, <<"attributes", "extermination_protocol">>,
            <<"inscryptions", "i31">>, <<"inscryptions", "i37">>, <<"inscryptions", "i40">>,
            <<"relics", "disk_of_dawn">>, <<"relics", "bee_gone_companion_drone">>,
            <<"gems", "innovation_node_#3">>}
      [] kind = "Knox" ->
           {<<"stats", "hp">>, <<"stats", "power">>, <<"stats", "regen">>,
            <<"stats", "damage_reduction">>, <<"stats", "effect_chance">>,
            <<"talents", "finishing_move">>,
            <<"attributes", "release_the_kraken">>}

\* the keys __create__ reads with d.get(key, 0)
Defaulted(kind) ==
    {<<"gadgets", "wrench_of_gore">>, <<"gadgets", "zaptron_533">>,
     <<"gadgets", "anchor_of_ages">>}
    \cup (IF kind = "Knox"
          THEN {<<"stats", "block_chance">>, <<"stats", "charge_chance">>,
                <<"stats", "charge_gained">>, <<"stats", "projectiles_per_salvo">>,
                <<"stats", "reload_time">>,
                <<"attributes", "a_pirates_life_for_knox">>,
                <<"attributes", "fortification_elixir">>,
                <<"attributes", "passive_charge_tank">>,
                <<"attributes", "serious_efficiency">>,
                <<"attributes", "shield_of_poseidon">>,
                <<"relics", "disk_of_dawn">>}
          ELSE {})

ConfigKeys(kind) == Subscripted(kind) \cup Defaulted(kind)
ConfigSections(kind) == {k[1] : k \in ConfigKeys(kind)}

\* Hunter.load_build: the dicts the hunter keeps.  A section the config lacks
\* is an empty dict, but without a meta section the level is read from the
\* flat format with the default 0, so meta then holds the key level.
load_build(cfg) ==
    {k \in cfg.keys : k[1] \in cfg.sections}
    \cup (IF "meta" \in cfg.sections THEN {} ELSE {<<"meta", "level">>})

\* the level of the key among the loaded keys: d[key] and d.get(key, 0) agree
\* on a key the dict holds; the model varies the levels of lv and of
\* block_chance, the others are 0
LevelOf(cfg, key) ==
    IF key \notin load_build(cfg) THEN 0
    ELSE CASE key = <<"stats", "hp">> -> cfg.lv.hp
           [] key = <<"stats", "power">> -> cfg.lv.power
           [] key = <<"stats", "damage_reduction">> -> cfg.lv.damage_reduction
           [] key = <<"stats", "block_chance">> -> cfg.block_chance
           [] key \in {<<"talents", "impeccable_impacts">>,
                       <<"talents", "thousand_needles">>} -> cfg.lv.stun
           [] OTHER -> 0

\* the levels __create__ computes the stats from
LevelsOf(cfg) ==
    [cfg.lv EXCEPT !.hp = LevelOf(cfg, <<"stats", "hp">>),
                   !.power = LevelOf(cfg, <<"stats", "power">>),
                   !.damage_reduction = LevelOf(cfg, <<"stats", "damage_reduction">>),
                   !.stun = IF cfg.kind = "Borge"
                            THEN LevelOf(cfg, <<"talents", "impeccable_impacts">>)
                            ELSE IF cfg.kind = "Ozzy"
                            THEN LevelOf(cfg, <<"talents", "thousand_needles">>)
                            ELSE @]

\* Knox.__create__: block_chance, in millionths
BlockChance(cfg) ==
    50000 + LevelOf(cfg, <<"stats", "block_chance">>) * 5000
          + LevelOf(cfg, <<"attributes", "fortification_elixir">>) * 10000
          + LevelOf(cfg, <<"attributes", "a_pirates_life_for_knox">>) * 8000

\* d[key] raises KeyError for a key the dict does not hold
CreateRaises(cfg) == \E key \in Subscripted(cfg.kind) : key \notin load_build(cfg)

\* Borge.__init__ / Ozzy.__init__ / Knox.__init__ on a config: __create__
\* after load_build
Create(cfg) ==
    IF CreateRaises(cfg) THEN [state |-> "raised"]
    ELSE [state |-> "built",
          hunter |-> NewHunter(cfg.kind, LevelsOf(cfg)),
          block_chance |-> IF cfg.kind = "Knox" THEN BlockChance(cfg) ELSE 0]

\* how many keys or sections a caller may leave out of a config
MaxDropped == 2

Dropped(cfg) ==
    Cardinality({k \in ConfigKeys(cfg.kind) \ cfg.keys : k[1] \in cfg.sections})
       + Cardinality(ConfigSections(cfg.kind) \ cfg.sections)

\* the builds a caller starts from: the dummy build and one with levels
BuildLevels ==
    {NoLevels, [NoLevels EXCEPT !.hp = 10, !.power = 20, !.damage_reduction = 5, !.stun = 1]}

\* a complete config of the class kind
FullConfig(kind, lv, block_chance) ==
    [kind |-> kind, sections |-> ConfigSections(kind), keys |-> ConfigKeys(kind),
     lv |-> lv, block_chance |-> block_chance]

BuildInit ==
    /\ \E kind \in {"Borge", "Ozzy", "Knox"}, lv \in BuildLevels, bc \in {0, 4} :
          build_config = FullConfig(kind, lv, bc)
    /\ built = [state |-> "config"]
    /\ SimIdle /\ StatIdle /\ BatchIdle /\ GuiIdle /\ WalkIdle /\ StunIdle /\ HardenIdle /\ PaceIdle /\ TabIdle

\* the caller leaves a key out of its section
DropKey ==
    /\ built.state = "config"
    /\ Dropped(build_config) < MaxDropped
    /\ \E key \in build_config.keys :
          build_config' = [build_config EXCEPT !.keys = @ \ {key}]
    /\ UNCHANGED <<built, notbuild>>

\* the caller leaves a whole section out
DropSection ==
    /\ built.state = "config"
    /\ Dropped(build_config) < MaxDropped
    /\ \E s \in build_config.sections :
          build_config' = [build_config EXCEPT !.sections = @ \ {s},
                                              !.keys = {k \in @ : k[1] # s}]
    /\ UNCHANGED <<built, notbuild>>

\* hunter_class(config)
Construct ==
    /\ built.state = "config"
    /\ built' = Create(build_config)
    /\ UNCHANGED <<build_config, notbuild>>

BuildNext == DropKey \/ DropSection \/ Construct

BuildSpec == BuildInit /\ [][BuildNext]_vars

-----------------------------------------------------------------------------
(* The stats of the enemies and bosses stage by stage (units.py): Enemy and *)
(* Boss call fetch_stats with the hunter and the stage when they are made.  *)

\* the model units in 1.0 hp here: whole hp, coarser than in a run, as the
\* stats of the late stages are large
StatUnit == 1

\* the last stage fetched
LastStage == 431

StatInit ==
    /\ \E kind \in {"Borge", "Ozzy", "Knox"} : fetch_for = [kind |-> kind, stage |-> 0]
    /\ fetched = [state |-> "none"]
    /\ SimIdle /\ BuildIdle /\ BatchIdle /\ GuiIdle /\ WalkIdle /\ StunIdle /\ HardenIdle /\ PaceIdle /\ TabIdle

\* Enemy.fetch_stats(hunter, stage)
FetchEnemyStats ==
    /\ fetched.state = "none"
    /\ fetched' = [state |-> "enemy",
                   enemy |-> EnemyStatsIn(fetch_for.kind, fetch_for.stage, StatUnit)]
    /\ UNCHANGED <<fetch_for, notstat>>

\* Boss.fetch_stats(hunter, stage), which starts from Enemy.fetch_stats
FetchBossStats ==
    /\ fetched.state = "enemy"
    /\ fetched' = [fetched EXCEPT !.state = "boss"] @@
                  [boss |-> BossStatsIn(fetch_for.kind, fetch_for.stage, StatUnit)]
    /\ UNCHANGED <<fetch_for, notstat>>

\* the stage is complete: the next stage's units will be made
NextStage ==
    /\ fetched.state # "none"
    /\ fetch_for.stage < LastStage
    /\ fetch_for' = [fetch_for EXCEPT !.stage = @ + 1]
    /\ fetched' = [state |-> "none"]
    /\ UNCHANGED notstat

StatNext == FetchEnemyStats \/ FetchBossStats \/ NextStage

StatSpec == StatInit /\ [][StatNext]_vars

-----------------------------------------------------------------------------
(* The optimizer's worker thread (gui.py, gui_multi.py): it simulates each  *)
(* build num_sims times and aggregates the runs into a BuildResult, while   *)
(* the user may press Stop.  Simulation.run belongs to sim.py; here it      *)
(* returns a result, of which the model keeps the final stage, or raises.   *)

\* the builds to test and the simulations per build
NumBuilds == 2
NumSims == 2

\* the final stages a run may return
FinalStages == {100, 301, 501}

Range(x) == {x[i] : i \in DOMAIN x}

RECURSIVE SumOf(_)
SumOf(x) == IF x = <<>> THEN 0 ELSE Head(x) + SumOf(Tail(x))

\* variant of _aggregate_results: a run counts as past boss k from stage
\* 100 * k on
aggregate_results_from_boss(build, final_stages) ==
    LET n == Len(final_stages)
        boss_deaths == Len(SelectSeq(final_stages, LAMBDA s : s % 100 = 0 /\ s > 0))
    IN  [build |-> build,
         final_stages |-> final_stages,
         n |-> n,
         avg_final_stage |-> [sum |-> SumOf(final_stages), n |-> n],
         highest_stage |-> CHOOSE s \in Range(final_stages) :
                               \A y \in Range(final_stages) : y <= s,
         lowest_stage |-> CHOOSE s \in Range(final_stages) :
                              \A y \in Range(final_stages) : y >= s,
         survival_rate |-> n - boss_deaths,
         boss_survival |-> [k \in 1..5 |->
                              Len(SelectSeq(final_stages, LAMBDA s : s >= 100 * k))]]

\* _aggregate_results(config, results_list).  A rate is kept as its numerator
\* over n and the mean as the sum over n; final_stages records the list the
\* result was computed from
aggregate_results(build, final_stages) ==
    LET n == Len(final_stages)
        boss_deaths == Len(SelectSeq(final_stages, LAMBDA s : s % 100 = 0 /\ s > 0))
    IN  [build |-> build,
         final_stages |-> final_stages,
         n |-> n,
         avg_final_stage |-> [sum |-> SumOf(final_stages), n |-> n],
         highest_stage |-> CHOOSE s \in Range(final_stages) :
                               \A y \in Range(final_stages) : y <= s,
         lowest_stage |-> CHOOSE s \in Range(final_stages) :
                              \A y \in Range(final_stages) : y >= s,
         survival_rate |-> n - boss_deaths,
         boss_survival |-> [k \in 1..5 |->
                              Len(SelectSeq(final_stages, LAMBDA s : s > 100 * k))]]

\* the thread enters _run_sampling_optimization with the flag cleared
BatchInit ==
    /\ stop_event = FALSE
    /\ worker = [pc |-> "loop", build |-> 0, tested |-> 0, results_list |-> <<>>,
                 dispatched |-> 0, raised |-> {}]
    /\ results = <<>>
    /\ SimIdle /\ BuildIdle /\ StatIdle /\ GuiIdle /\ WalkIdle /\ StunIdle /\ HardenIdle /\ PaceIdle /\ TabIdle

\* the user presses Stop: _stop_optimization sets the flag
StopOptimization ==
    /\ ~stop_event
    /\ worker.pc # "done"
    /\ stop_event' = TRUE
    /\ UNCHANGED <<worker, results, notbatch>>

\* the loop head with the flag clear: the next build's first run is
\* dispatched (_simulate_build, the first pass of its loop)
StartBuild ==
    /\ worker.pc = "loop"
    /\ ~stop_event
    /\ worker.build < NumBuilds
    /\ worker' = [worker EXCEPT !.pc = "running", !.build = @ + 1,
                                !.results_list = <<>>, !.dispatched = @ + 1]
    /\ UNCHANGED <<stop_event, results, notbatch>>

\* sim.run() returns: the result joins results_list and the loop over
\* range(num_sims) dispatches the next run; after the last one the runs are
\* aggregated, the BuildResult appended and the build counted
RunReturns ==
    /\ worker.pc = "running"
    /\ \E s \in FinalStages :
          LET results_list == Append(worker.results_list, s)
          IN  IF Len(results_list) < NumSims
              THEN /\ worker' = [worker EXCEPT !.results_list = results_list,
                                               !.dispatched = @ + 1]
                   /\ UNCHANGED results
              ELSE /\ worker' = [worker EXCEPT !.pc = "loop",
                                               !.results_list = results_list,
                                               !.tested = @ + 1]
                   /\ results' = Append(results,
                                        aggregate_results(worker.build, results_list))
    /\ UNCHANGED <<stop_event, notbatch>>

\* sim.run() raises: the exception leaves _simulate_build, which has no
\* handler, and is swallowed by the loop's "except Exception: pass"; the
\* build is counted as tested
RunRaises ==
    /\ worker.pc = "running"
    /\ worker' = [worker EXCEPT !.pc = "loop", !.tested = @ + 1,
                                !.raised = @ \cup {worker.build}]
    /\ UNCHANGED <<stop_event, results, notbatch>>

\* the loop head with the flag set: break
StopSeen ==
    /\ worker.pc = "loop"
    /\ stop_event
    /\ worker.build < NumBuilds
    /\ worker' = [worker EXCEPT !.pc = "done"]
    /\ UNCHANGED <<stop_event, results, notbatch>>

\* every build has been tested: 'done' is put on the result queue
Complete ==
    /\ worker.pc = "loop"
    /\ worker.build = NumBuilds
    /\ worker' = [worker EXCEPT !.pc = "done"]
    /\ UNCHANGED <<stop_event, results, notbatch>>

BatchNext ==
    StopOptimization \/ StartBuild \/ RunReturns \/ RunRaises \/ StopSeen \/ Complete

BatchSpec == BatchInit /\ [][BatchNext]_vars

-----------------------------------------------------------------------------
(* Run All / Stop All of the multi-hunter window (gui_multi.py).  The       *)
(* callbacks given to root.after run on the GUI thread one at a time; the   *)
(* model keeps how many of each are scheduled and lets any of them run.     *)

\* how often the user presses Run All
MaxPresses == 2

HunterNames == <<"Borge", "Knox", "Ozzy">>

\* the hunters ticked by the set sel, in the order _run_all_hunters lists them
Selected(sel) == SelectSeq(HunterNames, LAMBDA name : name \in sel)

\* MultiHunterGUI.__init__: no tab runs, Run All is enabled
GuiInit ==
    /\ hunter_tabs = [name \in {"Borge", "Knox", "Ozzy"} |->
                         [is_running |-> FALSE, stop_event |-> FALSE]]
    /\ sequential_queue = <<>>
    /\ after_calls = [run_next |-> 0, check |-> 0]
    /\ run_all_btn = "normal"
    /\ presses = 0
    /\ SimIdle /\ BuildIdle /\ StatIdle /\ BatchIdle /\ WalkIdle /\ StunIdle /\ HardenIdle /\ PaceIdle /\ TabIdle

\* HunterTab._start_optimization on the tabs
start_optimization(tabs, name) ==
    IF tabs[name].is_running THEN tabs
    ELSE [tabs EXCEPT ![name] = [is_running |-> TRUE, stop_event |-> FALSE]]

\* _run_next_sequential with the queue q and the after calls pending
RunNext(q, pending) ==
    IF q = <<>>
    THEN /\ run_all_btn' = "normal"
         /\ sequential_queue' = q
         /\ after_calls' = pending
         /\ UNCHANGED hunter_tabs
    ELSE /\ sequential_queue' = Tail(q)
         /\ hunter_tabs' = start_optimization(hunter_tabs, Head(q))
         /\ after_calls' = [pending EXCEPT !.check = @ + 1]
         /\ UNCHANGED run_all_btn

\* the user presses Run All with some hunters ticked: _run_all_hunters, which
\* disables the button, fills the queue and calls _run_next_sequential
RunAllHunters ==
    /\ run_all_btn = "normal"
    /\ presses < MaxPresses
    /\ presses' = presses + 1
    /\ \E sel \in SUBSET {"Borge", "Knox", "Ozzy"} \ {{}} :
          /\ sequential_queue' = Tail(Selected(sel))
          /\ hunter_tabs' = start_optimization(hunter_tabs, Head(Selected(sel)))
          /\ after_calls' = [after_calls EXCEPT !.check = @ + 1]
    /\ run_all_btn' = "disabled"
    /\ UNCHANGED notgui

\* a scheduled _run_next_sequential runs
RunNextSequential ==
    /\ after_calls.run_next > 0
    /\ RunNext(sequential_queue, [after_calls EXCEPT !.run_next = @ - 1])
    /\ UNCHANGED <<presses, notgui>>

\* a scheduled _check_sequential_complete runs: it reschedules itself while a
\* tab is running, then schedules the next hunter after the cooldown, or
\* calls _run_next_sequential at once when the queue is empty.  The waits for
\* the arena's animations only reschedule the check
CheckSequentialComplete ==
    /\ after_calls.check > 0
    /\ IF \E name \in DOMAIN hunter_tabs : hunter_tabs[name].is_running
       THEN UNCHANGED <<hunter_tabs, sequential_queue, after_calls, run_all_btn>>
       ELSE IF sequential_queue # <<>>
       THEN /\ after_calls' = [after_calls EXCEPT !.check = @ - 1, !.run_next = @ + 1]
            /\ UNCHANGED <<hunter_tabs, sequential_queue, run_all_btn>>
       ELSE RunNext(sequential_queue, [after_calls EXCEPT !.check = @ - 1])
    /\ UNCHANGED <<presses, notgui>>

\* the user presses Stop All: _stop_all_hunters.  The scheduled callbacks
\* stay scheduled
StopAllHunters ==
    /\ run_all_btn = "disabled"
    /\ sequential_queue' = <<>>
    /\ hunter_tabs' = [name \in DOMAIN hunter_tabs |->
                          IF hunter_tabs[name].is_running
                          THEN [hunter_tabs[name] EXCEPT !.stop_event = TRUE]
                          ELSE hunter_tabs[name]]
    /\ run_all_btn' = "normal"
    /\ UNCHANGED <<after_calls, presses, notgui>>

\* a tab's worker has put 'done' and _poll_results calls _optimization_complete
OptimizationComplete ==
    /\ \E name \in DOMAIN hunter_tabs :
          /\ hunter_tabs[name].is_running
          /\ hunter_tabs' = [hunter_tabs EXCEPT ![name].is_running = FALSE]
    /\ UNCHANGED <<sequential_queue, after_calls, run_all_btn, presses, notgui>>

GuiNext ==
    \/ RunAllHunters
    \/ RunNextSequential
    \/ CheckSequentialComplete
    \/ StopAllHunters
    \/ OptimizationComplete

GuiSpec == GuiInit /\ [][GuiNext]_vars

-----------------------------------------------------------------------------
(* The build generator's random walk over the attributes (gui.py), on the   *)
(* attributes of Borge's chain to born_for_battle (hunters.py).             *)

\* the attribute points of the hunter's level
AttributePoints == 81

\* Borge.costs["attributes"], attribute_dependencies and
\* attribute_point_gates of the attributes walked; an attribute that is not
\* limited has max inf, one with gate 0 has no entry in the gates
BorgeAttributes ==
    [soul_of_ares |-> [cost |-> 1, limited |-> FALSE, max |-> 0, deps |-> {}, gate |-> 0],
     essence_of_ylith |-> [cost |-> 1, limited |-> FALSE, max |-> 0,
                           deps |-> {<<"soul_of_ares", 1>>}, gate |-> 0],
     spartan_lineage |-> [cost |-> 2, limited |-> TRUE, max |-> 6,
                          deps |-> {<<"essence_of_ylith", 1>>}, gate |-> 0],
     born_for_battle |-> [cost |-> 5, limited |-> TRUE, max |-> 3,
                          deps |-> {<<"spartan_lineage", 1>>}, gate |-> 75]]

\* Borge defines no attribute_exclusions
attribute_exclusions == {}

\* the points spent in the attributes of the set among, in the allocation
RECURSIVE PointsSpent(_, _)
PointsSpent(allocation, among) ==
    IF among = {} THEN 0
    ELSE LET a == CHOOSE a \in among : TRUE
         IN  allocation[a] * BorgeAttributes[a].cost + PointsSpent(allocation, among \ {a})

\* variant of _can_unlock_attribute: every attribute is taken as ungated
can_unlock_any(attr, current_allocation) == TRUE

\* BuildGenerator._can_unlock_attribute
can_unlock_attribute(attr, current_allocation) ==
    \/ BorgeAttributes[attr].gate = 0
    \/ PointsSpent(current_allocation, DOMAIN current_allocation \ {attr})
           >= BorgeAttributes[attr].gate

\* _random_walk_attr_allocation: the attributes that can take one more point
ValidAttrs(result, remaining) ==
    {attr \in DOMAIN result :
        /\ BorgeAttributes[attr].cost <= remaining
        /\ ~BorgeAttributes[attr].limited \/ result[attr] < BorgeAttributes[attr].max
        /\ \A d \in BorgeAttributes[attr].deps : result[d[1]] >= d[2]
        /\ can_unlock_attribute(attr, result)
        /\ ~\E pair \in attribute_exclusions :
               attr \in pair /\ \E other \in pair \ {attr} : result[other] > 0}

\* _random_walk_attr_allocation is entered
WalkInit ==
    /\ walk = [pc |-> "walking",
               result |-> [a \in DOMAIN BorgeAttributes |-> 0],
               remaining |-> AttributePoints,
               iteration |-> 0,
               stuck_count |-> 0]
    /\ SimIdle /\ BuildIdle /\ StatIdle /\ BatchIdle /\ StunIdle /\ HardenIdle /\ PaceIdle /\ TabIdle
    /\ GuiIdle

\* a pass of the loop: one of the valid attributes is chosen at random and
\* takes a point; with none valid the pass is counted as stuck (soul_of_ares,
\* of cost 1, unlimited and ungated, is valid whenever a point remains)
WalkPass ==
    /\ walk.pc = "walking"
    /\ walk.remaining > 0 /\ walk.iteration < 10000
    /\ walk.stuck_count < 3
    /\ IF ValidAttrs(walk.result, walk.remaining) = {}
       THEN walk' = [walk EXCEPT !.iteration = @ + 1, !.stuck_count = @ + 1]
       ELSE \E chosen \in ValidAttrs(walk.result, walk.remaining) :
               walk' = [walk EXCEPT !.iteration = @ + 1,
                                    !.stuck_count = 0,
                                    !.result[chosen] = @ + 1,
                                    !.remaining = @ - BorgeAttributes[chosen].cost]
    /\ UNCHANGED notwalk

\* the loop is left, with no points remaining or after the third pass with
\* no valid attribute: the allocation is returned, or all zeros if it
\* spends more than the attribute points
ReturnAllocation ==
    /\ walk.pc = "walking"
    /\ walk.remaining <= 0 \/ walk.iteration >= 10000 \/ walk.stuck_count >= 3
    /\ walk' = [walk EXCEPT
                  !.pc = "returned",
                  !.result = IF PointsSpent(walk.result, DOMAIN walk.result) > AttributePoints
                             THEN [a \in DOMAIN walk.result |-> 0]
                             ELSE walk.result]
    /\ UNCHANGED notwalk

WalkNext == WalkPass \/ ReturnAllocation

WalkSpec == WalkInit /\ [][WalkNext]_vars

-----------------------------------------------------------------------------
(* Enemy.stun as a function of the queue it is called on (units.py): the    *)
(* 'stun' event has been popped, the queue holds what was pending with it.  *)

MaxPending == 4
PendingTimes == {1000, 2000, 3000}
StunDurations == {500, 1500}

\* the events that can be pending with a stun, with the priorities they are
\* pushed with; at most one of each kind is pending
PendingEvents ==
    {<<t, HunterPriority, "hunter">> : t \in PendingTimes}
    \cup {<<t, EnemyPriority, "enemy">> : t \in PendingTimes}
    \cup {<<t, EnemyPriority, "enemy_special">> : t \in PendingTimes}
    \cup {<<t, RegenPriority, "regen">> : t \in PendingTimes}

\* the lists in heap order of n such events
PendingQueuesOf(n) ==
    {q \in [1..n -> PendingEvents] :
        /\ IsHeap(q)
        /\ \A i, j \in 1..n : i # j => q[i][3] # q[j][3]}

PendingQueues == UNION {PendingQueuesOf(n) : n \in 0..MaxPending}

StunInit ==
    /\ \E q \in PendingQueues : stun_call = [pc |-> "stun", q |-> q, popped |-> <<>>]
    /\ SimIdle /\ BuildIdle /\ StatIdle /\ BatchIdle /\ GuiIdle /\ WalkIdle /\ HardenIdle /\ PaceIdle /\ TabIdle

\* the 'stun' is dispatched: Enemy.stun(duration) on the queue
ApplyStun ==
    /\ stun_call.pc = "stun"
    /\ \E duration \in StunDurations :
          stun_call' = IF StunRaises(stun_call.q)
                       THEN [stun_call EXCEPT !.pc = "raised"]
                       ELSE [stun_call EXCEPT !.pc = "stunned",
                                              !.q = StunQueue(@, duration)]
    /\ UNCHANGED notcall

\* the loop pops the next event off the queue
PopNext ==
    /\ stun_call.pc = "stunned"
    /\ stun_call.q # <<>>
    /\ stun_call' = [stun_call EXCEPT !.q = heappop(@),
                                      !.popped = Append(@, stun_call.q[1])]
    /\ UNCHANGED notcall

StunNext == ApplyStun \/ PopNext

StunSpec == StunInit /\ [][StunNext]_vars

-----------------------------------------------------------------------------
(* The Harden effect over a fight with Ozzy's boss (units.py): the boss's   *)
(* secondary attack every speed2, the regen tick every second.  The boss's  *)
(* hp, power and regen are not followed (unit 0).                           *)

HardenHorizon == 20000
HardenStages == {200, 300, 400, 500, 600, 680, 700, 800}
SpawnTimes == {0, 300, 600}

\* the boss of the stage as Boss.__init__ leaves it
Exoscarab(stage) == UnitOf(1, TRUE, BossStatsIn("Ozzy", stage, 0))

\* the first regen tick at or after time t
TickFrom(t) == ((t + RegenPeriod - 1) \div RegenPeriod) * RegenPeriod

HardenInit ==
    /\ \E stage \in HardenStages, t \in SpawnTimes :
          harden_fight = [pc |-> "fight", stage |-> stage, boss |-> Exoscarab(stage),
                          special_at |-> RoundMs(t * 1000 + UnitSpeed2(Exoscarab(stage))),
                          regen_at |-> TickFrom(t)]
    /\ SimIdle /\ BuildIdle /\ StatIdle /\ BatchIdle /\ GuiIdle /\ WalkIdle /\ StunIdle /\ PaceIdle /\ TabIdle

\* 'enemy_special' is the earliest event: boss.attack_special, then the next
\* one a speed2 later
SecondaryAttack ==
    /\ harden_fight.pc = "fight"
    /\ harden_fight.special_at <= harden_fight.regen_at
    /\ harden_fight.special_at <= HardenHorizon
    /\ harden_fight' =
          [harden_fight EXCEPT
              !.boss = BossAttackSpecial(@, World(DefaultKillRolls(MaxKills)),
                                         DefaultDefenceRolls(@)).e,
              !.special_at = RoundMs(@ * 1000 + UnitSpeed2(harden_fight.boss))]
    /\ UNCHANGED notfight

\* 'regen' is the earliest event: boss.regen_hp, then the next tick
RegenTick ==
    /\ harden_fight.pc = "fight"
    /\ harden_fight.regen_at < harden_fight.special_at
    /\ harden_fight.regen_at <= HardenHorizon
    /\ harden_fight' = [harden_fight EXCEPT !.boss = RegenHeal(@),
                                            !.regen_at = @ + RegenPeriod]
    /\ UNCHANGED notfight

HardenNext == SecondaryAttack \/ RegenTick

HardenSpec == HardenInit /\ [][HardenNext]_vars

-----------------------------------------------------------------------------
(* The pace of a unit's attacks (units.py): the interval read to queue its  *)
(* next attack, over the stages and the enrage stacks.  The unit's hp,      *)
(* power and regen are not followed (unit 0).                               *)

MaxPaced == 3
PaceStages == {0, 50, 100, 200, 300, 700, 754, 755, 756, 800, 801, 900}
PaceStacks == {0, 100, 199, 400}

\* the boss stages
IsBossStage(stage) == stage > 0 /\ stage % 100 = 0

\* the unit of the stage for the hunter class, a boss with the stacks given
PacedUnit(kind, stage, stacks) ==
    IF IsBossStage(stage)
    THEN [UnitOf(1, TRUE, BossStatsIn(kind, stage, 0)) EXCEPT !.enrage_stacks = stacks]
    ELSE UnitOf(1, FALSE, EnemyStatsIn(kind, stage, 0))

\* Enemy.queue_initial_attack at time 0
Paced(e) ==
    [pc |-> "fight", unit |-> e, popped_at |-> 0,
     pushed_at |-> RoundMs(UnitSpeed(e)),
     attack_at |-> RoundMs(UnitSpeed(e)),
     special_at |-> IF e.has_special THEN RoundMs(UnitSpeed2(e)) ELSE 0,
     attacks |-> 0]

PaceInit ==
    /\ \E kind \in {"Borge", "Ozzy", "Knox"}, stage \in PaceStages, stacks \in PaceStacks :
          /\ ~IsBossStage(stage) => stacks = 0
          /\ pace = Paced(PacedUnit(kind, stage, stacks))
    /\ SimIdle /\ BuildIdle /\ StatIdle /\ BatchIdle /\ GuiIdle /\ WalkIdle /\ StunIdle /\ TabIdle
    /\ HardenIdle

\* the unit's secondary attack is the earlier of its two events
SpecialIsNext(p) == p.unit.has_special /\ p.special_at < p.attack_at

\* the unit after its attack: a boss gains a stack
AfterPacedAttack(e) == IF e.boss THEN Enrage(e) ELSE e

\* 'enemy': the unit's attack, then the next one is queued one interval later
PacedAttack ==
    /\ pace.pc = "fight"
    /\ pace.attacks < MaxPaced
    /\ ~SpecialIsNext(pace)
    /\ pace' = [pace EXCEPT
                   !.unit = AfterPacedAttack(@),
                   !.popped_at = pace.attack_at,
                   !.pushed_at = RoundMs(pace.attack_at * 1000
                                             + UnitSpeed(AfterPacedAttack(pace.unit))),
                   !.attack_at = RoundMs(@ * 1000 + UnitSpeed(AfterPacedAttack(pace.unit))),
                   !.attacks = @ + 1]
    /\ UNCHANGED notpace

\* the boss after its secondary attack: the stacks of Boss.attack_special
AfterPacedSpecial(e) ==
    [e EXCEPT !.enrage_stacks = @ + (IF e.secondary_attack = "gothmorgor" THEN 1 ELSE 5)]

\* 'enemy_special': the boss's secondary attack, then the next one is queued
\* one speed2 later
PacedSpecial ==
    /\ pace.pc = "fight"
    /\ pace.attacks < MaxPaced
    /\ SpecialIsNext(pace)
    /\ pace' = [pace EXCEPT
                   !.unit = AfterPacedSpecial(@),
                   !.popped_at = pace.special_at,
                   !.pushed_at = RoundMs(pace.special_at * 1000
                                             + UnitSpeed2(AfterPacedSpecial(pace.unit))),
                   !.special_at = RoundMs(@ * 1000 + UnitSpeed2(AfterPacedSpecial(pace.unit))),
                   !.attacks = @ + 1]
    /\ UNCHANGED notpace

PaceNext == PacedAttack \/ PacedSpecial

PaceSpec == PaceInit /\ [][PaceNext]_vars

-----------------------------------------------------------------------------
(* One optimizer tab (gui.py, and a HunterTab of gui_multi.py): the UI      *)
(* thread's Start, Stop and poll callbacks and the worker thread's posts to *)
(* result_queue.  Each action is one callback, or one put of the worker.    *)

MaxStarts == 3
MaxQueued == 2

Windows == {"gui", "gui_multi"}
TerminalMessages == {"done", "error"}
Messages == {"progress", "log"} \cup TerminalMessages

\* the position of the first 'done' or 'error' in the queue, 0 if there is none
RECURSIVE FirstTerminalFrom(_, _)
FirstTerminalFrom(q, i) ==
    IF i > Len(q) THEN 0
    ELSE IF q[i] \in TerminalMessages THEN i
    ELSE FirstTerminalFrom(q, i + 1)

FirstTerminal(q) == FirstTerminalFrom(q, 1)

TabInit ==
    /\ \E window \in Windows :
          tab = [window |-> window, is_running |-> FALSE, stop_event |-> FALSE,
                 start_btn |-> "normal", stop_btn |-> "disabled",
                 result_queue |-> <<>>, alive |-> 0, polling |-> FALSE,
                 starts |-> 0, ignored |-> 0]
    /\ SimIdle /\ BuildIdle /\ StatIdle /\ BatchIdle /\ GuiIdle /\ WalkIdle /\ StunIdle
    /\ HardenIdle /\ PaceIdle

\* a variant of _start_optimization: is_running is not tested
PressStartAnyway ==
    /\ tab.window # "none"
    /\ tab.starts < MaxStarts
    /\ tab' = [tab EXCEPT !.is_running = TRUE, !.stop_event = FALSE,
                          !.start_btn = "disabled", !.stop_btn = "normal",
                          !.alive = @ + 1, !.polling = TRUE, !.starts = @ + 1]
    /\ UNCHANGED nottab

\* _start_optimization, from the Start button or from Run All: a no-op while
\* is_running; else the flags are set, the worker thread is started and the
\* first poll is scheduled
PressStart ==
    /\ tab.window # "none"
    /\ tab.starts < MaxStarts
    /\ tab' = IF tab.is_running
              THEN [tab EXCEPT !.starts = @ + 1, !.ignored = @ + 1]
              ELSE [tab EXCEPT !.is_running = TRUE, !.stop_event = FALSE,
                               !.start_btn = "disabled", !.stop_btn = "normal",
                               !.alive = @ + 1, !.polling = TRUE, !.starts = @ + 1]
    /\ UNCHANGED nottab

\* _stop_optimization, from the Stop button: the stop flag is set; the tab
\* of gui_multi.py then empties result_queue
PressStop ==
    /\ tab.window # "none"
    /\ tab.stop_btn = "normal"
    /\ ~tab.stop_event
    /\ tab' = [tab EXCEPT !.stop_event = TRUE,
                          !.result_queue = IF tab.window = "gui_multi" THEN <<>> ELSE @]
    /\ UNCHANGED nottab

\* the worker thread puts a message; 'done' (also after a stop) or 'error'
\* is the last thing it does
WorkerPost(msg) ==
    /\ tab.window # "none"
    /\ tab.alive > 0
    /\ msg \in TerminalMessages \/ Len(tab.result_queue) < MaxQueued
    /\ tab' = [tab EXCEPT !.result_queue = Append(@, msg),
                          !.alive = IF msg \in TerminalMessages THEN @ - 1 ELSE @]
    /\ UNCHANGED nottab

WorkerPosts == \E msg \in Messages : WorkerPost(msg)

\* _optimization_complete
TabComplete(t) ==
    [t EXCEPT !.is_running = FALSE, !.start_btn = "normal", !.stop_btn = "disabled"]

\* _poll_results: the messages are taken up to the first 'done' or 'error',
\* which completes the optimization; without one the queue is emptied and
\* the poll is scheduled again while is_running
PollResults ==
    /\ tab.window # "none"
    /\ tab.polling
    /\ tab' = IF FirstTerminal(tab.result_queue) > 0
              THEN [TabComplete(tab) EXCEPT
                       !.result_queue = SubSeq(@, FirstTerminal(@) + 1, Len(@)),
                       !.polling = FALSE]
              ELSE [tab EXCEPT !.result_queue = <<>>, !.polling = tab.is_running]
    /\ UNCHANGED nottab

TabNext == PressStart \/ PressStop \/ WorkerPosts \/ PollResults

TabSpec == TabInit /\ [][TabNext]_vars

\* the poll callback runs when it is scheduled, and a worker ends
FairTabSpec ==
    /\ TabSpec
    /\ WF_vars(PollResults)
    /\ WF_vars(WorkerPost("done"))

-----------------------------------------------------------------------------
(* Properties.                                                              *)

\* the hunter can be hit: it is alive and has a live target
InFight == Running /\ ~HunterIsDead(hunter) /\ enemies # <<>> /\ ~UnitIsDead(enemies[1])

\* the hit of the target on the hunter under the rolls r, as [h, final]
HitBy(r) == Defend(hunter, UnitDamage(enemies[1], r.crit), r.crit, r)

\* d is the outcome of a lethal hit: the hp left after it is not positive
Lethal(d) == d.final > 0 /\ hunter.hp - d.final <= 0

Revived(d) ==
    /\ 10 * d.h.hp = 8 * d.h.max_hp
    /\ d.h.times_revived = hunter.times_revived + 1
    /\ d.h.revive_log = Append(hunter.revive_log, hunter.current_stage)

StaysDead(d) ==
    /\ d.h.hp = hunter.hp - d.final
    /\ HunterIsDead(d.h)
    /\ d.h.times_revived = hunter.times_revived
    /\ d.h.revive_log = hunter.revive_log

ReviveOrDie(d) ==
    Lethal(d) =>
        IF hunter.times_revived < hunter.lv.death_is_my_companion
        THEN Revived(d) ELSE StaysDead(d)

\* C1: in every reachable state of a fight, whatever the rolls, a lethal hit
\* on the hunter with a revive left (times_revived below the level of Death
\* is my Companion) leaves the hunter at exactly 0.8 * max_hp, with
\* times_revived one higher and the current stage appended to revive_log;
\* with no revive left it leaves hp <= 0 and the hunter dead.
C1_ReviveOrStayDead ==
    InFight => \A r \in DefenceRolls(hunter, enemies[1]) : ReviveOrDie(HitBy(r))

\* a revive has just happened: the hunter stands at 0.8 * max_hp with the
\* stage of the revive logged, and a hunter with a revive talent can die
C1_Revived ==
    /\ hunter.times_revived > 0
    /\ 10 * hunter.hp = 8 * hunter.max_hp
    /\ hunter.revive_log[hunter.times_revived] = hunter.current_stage

\* C2: in every reachable state times_revived is at most the level of Death
\* is my Companion and revive_log has exactly times_revived entries, each a
\* stage number, for Borge, Ozzy and Knox.
C2_RevivesBounded ==
    /\ hunter.times_revived <= hunter.lv.death_is_my_companion
    /\ Len(hunter.revive_log) = hunter.times_revived
    /\ \A i \in 1..Len(hunter.revive_log) : hunter.revive_log[i] \in 0..hunter.current_stage

\* Knox has used every revive through its own receive_damage and died
C2_KnoxOutOfRevives ==
    /\ hunter.kind = "Knox"
    /\ hunter.lv.death_is_my_companion > 0
    /\ hunter.times_revived = hunter.lv.death_is_my_companion
    /\ HunterIsDead(hunter)

\* C3: once the hunter was dead with no revive left, inside a handler or
\* between two, it is dead in every later state: no regen tick, lifesteal,
\* Life of the Hunt or on-kill potion raises its hp above 0 again.
C3_DeadIsTerminal == dead_seen => HunterIsDead(hunter) /\ hunter.times_revived = hunter.lv.death_is_my_companion

\* a Borge with Helltouch Barrier and Unfair Advantage died of a hit whose
\* reflection, had it lived, would have killed the attacker, and the potion
\* of the kill would have brought its hp above 0
C3_DeadBorge ==
    /\ dead_seen
    /\ hunter.kind = "Borge"
    /\ hunter.lv.unfair_advantage > 0
    /\ status = "finished"
    /\ enemies # <<>> /\ ~UnitIsDead(enemies[1])
    /\ enemies[1].hp <= MulDiv(enemies[1].power, hunter.lv.helltouch_barrier * 8, 100)
    /\ hunter.hp + MulDiv(hunter.max_hp, hunter.lv.unfair_advantage * 2, 100) > 0

InMaxEnrage(e) ==
    e.max_enrage /\ e.power = 3 * e.base_power /\ e.special_chance = 1000000

\* C4: in every reachable state a boss with enrage_stacks >= 200 is in
\* Max-Enrage: max_enrage set, power = 3 * base_power, special_chance = 1,
\* whichever attack, primary or secondary, brought the counter to 200.
C4_MaxEnrageFrom200 ==
    \A i \in 1..Len(enemies) :
        enemies[i].boss /\ enemies[i].enrage_stacks >= 200 => InMaxEnrage(enemies[i])

\* the event at the head of the queue is an attack of a boss
BossAttackStep ==
    (CanDispatch("enemy") \/ CanDispatch("enemy_special")) /\ enemies[1].boss

\* the same boss is the target before and after the step
SameBoss ==
    /\ enemies # <<>> /\ enemies[1].boss
    /\ enemies' # <<>> /\ enemies'[1].id = enemies[1].id

\* C5: the enrage_stacks of a boss never decrease, and every boss attack
\* event, primary or secondary, evaded, blocked or taken, strictly increases
\* them.
C5_EnrageGrows ==
    [][/\ SameBoss => enemies'[1].enrage_stacks >= enemies[1].enrage_stacks
       /\ BossAttackStep => SameBoss /\ enemies'[1].enrage_stacks > enemies[1].enrage_stacks]_vars

\* a boss has attacked several times and the hunter evaded one of the attacks
C5_EvadedBossAttack ==
    /\ enemies # <<>> /\ enemies[1].boss
    /\ hunter.total_evades > 0
    /\ hunter.total_attacks_suffered > 0
    /\ enemies[1].enrage_stacks >= hunter.total_evades + hunter.total_attacks_suffered

\* C6: once max_enrage is set on a boss, in every later state of that boss
\* max_enrage is set, power is 3 * base_power and special_chance is 1.
C6_MaxEnrageOneWay ==
    [][SameBoss /\ enemies[1].max_enrage => InMaxEnrage(enemies'[1])]_vars

\* a boss is still in Max-Enrage several attacks after it entered it
C6_LongInMaxEnrage ==
    /\ enemies # <<>> /\ enemies[1].boss
    /\ InMaxEnrage(enemies[1])
    /\ enemies[1].enrage_stacks >= 205

CritCapped(e) == e.special_chance <= 250000 /\ e.special_damage <= 2500000

\* C7: in every reachable state the crit damage multiplier of every enemy
\* and boss is at most 2.5 and its crit chance is at most 0.25, except for a
\* boss in Max-Enrage, whose crit chance is 1.
C7_CritCapsOrMaxEnrage ==
    \A i \in 1..Len(enemies) :
        \/ CritCapped(enemies[i])
        \/ /\ enemies[i].boss /\ InMaxEnrage(enemies[i])
           /\ enemies[i].special_damage <= 2500000

\* a boss in Max-Enrage attacks with crit chance 1 and the crit damage
\* multiplier clamped to exactly 2.5
C7_MaxEnrageCrit ==
    /\ enemies # <<>> /\ enemies[1].boss
    /\ enemies[1].max_enrage
    /\ enemies[1].special_chance = 1000000
    /\ enemies[1].special_damage = 2500000
    /\ hunter.total_attacks_suffered > 200

\* C7 as stated: the crit chance of every enemy and boss is at most 0.25 and
\* its crit damage multiplier at most 2.5 in every reachable state.
C7_CritCapsAlways == \A i \in 1..Len(enemies) : CritCapped(enemies[i])

\* C8: in every reachable state the hunter's on_kill has run exactly once
\* per enemy death.
C8_OnKillOncePerDeath == on_kills = deaths

OtherEvents(q) == SelectSeq(q, LAMBDA ev : ~IsEnemyEvent(ev))

Count(q, ev) == Cardinality({i \in 1..Len(q) : q[i] = ev})

\* q2 holds the events of q, each as often
SameEvents(q, q2) ==
    /\ Len(q) = Len(q2)
    /\ \A i \in 1..Len(q) : Count(q2, q[i]) = Count(q, q[i])

\* q2 is the queue q after the purge
Purged(q, q2) ==
    /\ \A i \in 1..Len(q2) : ~IsEnemyEvent(q2[i])
    /\ SameEvents(OtherEvents(q), q2)
    /\ IsHeap(q2)

\* C10: in every reachable state, were the target to die now, the queue after
\* Enemy.on_death would hold no 'enemy' and no 'enemy_special' event, would
\* hold every other pending event with its time and priority, and would be a
\* valid heap.
C10_OnDeathPurges ==
    enemies # <<>> =>
        Purged(queue,
               EnemyOnDeath(enemies[1],
                            [h |-> hunter, q |-> queue, raised |-> FALSE,
                             rolls |-> DefaultKillRolls(MaxKills)]).q)

\* the target has just died with a triggered attack of the hunter pending:
\* the enemy's events are gone, the hunter's are queued
C10_TargetJustDied ==
    /\ enemies # <<>> /\ UnitIsDead(enemies[1])
    /\ deaths > 0
    /\ \A i \in 1..Len(queue) : ~IsEnemyEvent(queue[i])
    /\ \E i \in 1..Len(queue) : queue[i][3] = "hunter_special"
    /\ \E i \in 1..Len(queue) : queue[i][3] = "regen"
    /\ IsHeap(queue)

\* the 'enemy' events of q
PrimaryEvents(q) == SelectSeq(q, LAMBDA ev : ev[3] = "enemy")

\* the events of q other than the 'enemy' ones
NotPrimaryEvents(q) == SelectSeq(q, LAMBDA ev : ev[3] # "enemy")

\* q2 is q with its one 'enemy' event moved d later and nothing else changed
Delayed(q, q2, d) ==
    /\ Len(PrimaryEvents(q2)) = 1
    /\ PrimaryEvents(q2)[1] = <<PrimaryEvents(q)[1][1] + d, PrimaryEvents(q)[1][2], "enemy">>
    /\ SameEvents(NotPrimaryEvents(q), NotPrimaryEvents(q2))

\* C11: a 'stun' event dispatched while exactly one 'enemy' event is pending
\* at time t leaves exactly one 'enemy' event, at t + duration with the same
\* priority, and every other event, a boss's 'enemy_special' included, as it
\* was: the attack is delayed, neither cancelled nor duplicated.
C11_StunDelays ==
    [][CanDispatch("stun") /\ Len(PrimaryEvents(heappop(queue))) = 1
          => Delayed(heappop(queue), queue', StunDuration(hunter, enemies[1].boss))]_vars

\* a boss with a secondary attack pending has been stunned: its primary
\* attack is pending once
C11_BossStunned ==
    /\ hunter.total_stuntime_inflicted > 0
    /\ enemies # <<>> /\ enemies[1].boss /\ ~UnitIsDead(enemies[1])
    /\ Len(PrimaryEvents(queue)) = 1
    /\ \E i \in 1..Len(queue) : queue[i][3] = "enemy_special"

\* the events of kind k pending in q
Pending(q, k) == {i \in 1..Len(q) : q[i][3] = k}

\* C12: in every reachable state a pending 'stun' event is the one the loop
\* pops next: it is at the head of the queue, before the enemy's attack and
\* before the triggered attacks queued by the same main attack, none of
\* which has been resolved yet.
C12_StunFirst ==
    Pending(queue, "stun") # {} =>
        /\ Pending(queue, "stun") = {1}
        /\ \A i \in 2..Len(queue) : Lt(queue[1], queue[i])
        /\ hunter.kind = "Ozzy" =>
               Cardinality(Pending(queue, "hunter_special")) = Len(hunter.attack_queue)

\* Ozzy's main attack has procced a stun, a multi-strike and an echo: the stun
\* is to be resolved with the enemy's attack and both triggered attacks pending
C12_StunBeforeTriggered ==
    /\ Pending(queue, "stun") # {}
    /\ Cardinality(Pending(queue, "hunter_special")) = 2
    /\ Pending(queue, "enemy") # {}
    /\ hunter.attack_queue = <<"(MS)", "(ECHO)">>

\* the priority of the queue event of a triggered attack
TriggerPriority(atk_type) ==
    CASE atk_type = "(MS)" -> 1
      [] atk_type = "(ECHO)" -> 2
      [] atk_type = "(ECHO-MS)" -> 3

\* every entry of attack_queue has its own 'hunter_special' event at time 0,
\* and the entries stand in the order multi-strike, echo, echo-multi-strike
TriggeredInOrder(h, q) ==
    /\ Cardinality(Pending(q, "hunter_special")) = Len(h.attack_queue)
    /\ \A i \in 1..Len(h.attack_queue) :
           /\ \E j \in 1..Len(q) :
                  q[j] = <<0, TriggerPriority(h.attack_queue[i]), "hunter_special">>
           /\ \A k \in 1..(i - 1) :
                  TriggerPriority(h.attack_queue[k]) < TriggerPriority(h.attack_queue[i])

\* the dispatch of a 'hunter_special' event pops the matching entry of
\* attack_queue, adds at most the echo's multi-strike and queues no stun
TriggeredStep ==
    /\ queue[1] = <<0, TriggerPriority(Head(hunter.attack_queue)), "hunter_special">>
    /\ \/ hunter'.attack_queue = Tail(hunter.attack_queue)
       \/ /\ Head(hunter.attack_queue) = "(ECHO)"
          /\ hunter'.attack_queue = Append(Tail(hunter.attack_queue), "(ECHO-MS)")
    /\ Pending(queue', "stun") = {}

\* C13: Ozzy's triggered attacks are queue events of their own, in step with
\* attack_queue and in the order multi-strike, echo, echo-multi-strike; each
\* dispatch pops the matching entry and queues no stun; and no enemy attack
\* and no main attack of the hunter is dispatched while one is pending.
C13_TriggeredInOrder ==
    [][hunter.kind = "Ozzy" =>
          /\ TriggeredInOrder(hunter', queue')
          /\ CanDispatch("hunter_special") => TriggeredStep
          /\ CanDispatch("enemy") \/ CanDispatch("enemy_special") \/ CanDispatch("hunter")
                => hunter.attack_queue = <<>>]_vars

\* the multi-strike and the echo of a main attack are resolved and the
\* echo's own multi-strike is the next event
C13_EchoMultistrikeNext ==
    /\ hunter.kind = "Ozzy"
    /\ hunter.attack_queue = <<"(ECHO-MS)">>
    /\ CanDispatch("hunter_special")
    /\ queue[1] = <<0, 3, "hunter_special">>

\* C14: in every reachable state every event pending in the queue is
\* scheduled at or after the simulation's elapsed_time, so the timestamps of
\* the events popped never decrease.
C14_ClockForward == \A i \in 1..Len(queue) : queue[i][1] >= elapsed_time

\* the hunter's part of the target's hit under the rolls r is an evade
Evades(r) == r.evade /\ (hunter.kind = "Borge" \/ (hunter.kind = "Ozzy" /\ hunter.trickster_charges = 0))

\* the target's whole primary attack under the rolls r, as [e, w]
AttackedBy(r) ==
    EnemyAttack(enemies[1],
                [h |-> hunter, q |-> queue, raised |-> FALSE,
                 rolls |-> DefaultKillRolls(MaxKills)], r)

\* the hunter after an evade that changes nothing but total_evades
OnlyEvaded == [hunter EXCEPT !.total_evades = @ + 1]

\* Dance of Dashes procs on the crit under the rolls r
DodProcs(r) == hunter.kind = "Ozzy" /\ r.crit /\ r.dod /\ hunter.lv.dance_of_dashes > 0

\* the hit under the rolls r is negated by a trickster charge, one charge used
TricksterEvade(r) ==
    AttackedBy(r) = [e |-> enemies[1],
                     w |-> [h |-> [hunter EXCEPT !.trickster_charges = @ - 1,
                                                 !.total_trickster_evades = @ + 1],
                            q |-> queue, raised |-> FALSE,
                            rolls |-> DefaultKillRolls(MaxKills)]]

\* C15: in every reachable state of a fight an evaded hit leaves hp,
\* total_taken, total_mitigated, total_attacks_suffered and the attacker as
\* they were (nothing is reflected) and adds one to total_evades; the one
\* other change it can make is the trickster charge of Dance of Dashes when
\* Ozzy evades a crit.  A hit on an Ozzy that has a trickster charge uses
\* exactly one charge, adds one to total_trickster_evades and changes nothing
\* else, and trickster_charges is never negative.
C15_EvadeNegates ==
    /\ hunter.trickster_charges >= 0
    /\ InFight =>
          \A r \in DefenceRolls(hunter, enemies[1]) :
             /\ Evades(r) =>
                   /\ AttackedBy(r).e = enemies[1]
                   /\ AttackedBy(r).w.q = queue
                   /\ AttackedBy(r).w.h =
                         IF DodProcs(r)
                         THEN [OnlyEvaded EXCEPT !.trickster_charges = @ + 1]
                         ELSE OnlyEvaded
             /\ hunter.kind = "Ozzy" /\ hunter.trickster_charges > 0 => TricksterEvade(r)

\* Ozzy evaded a crit, gained a trickster charge by Dance of Dashes and
\* spent it on the next hit: no attack was suffered
C15_EvadedThenTrickster ==
    /\ hunter.kind = "Ozzy"
    /\ hunter.lv.tricksters_boon = 0
    /\ hunter.total_evades = 1
    /\ hunter.total_trickster_evades = 1
    /\ hunter.trickster_charges = 0
    /\ hunter.total_attacks_suffered = 0

\* C15 as stated: an evaded hit changes nothing of the hunter but
\* total_evades, which it increments.
C15_OnlyEvadesCounted ==
    InFight =>
        \A r \in DefenceRolls(hunter, enemies[1]) :
            Evades(r) => AttackedBy(r).w.h = OnlyEvaded

\* the damage Helltouch Barrier reflects of a hit that took final from the hunter
Reflected(final) ==
    MulDiv(final, hunter.lv.helltouch_barrier * 8, IF OnBossStage(hunter) THEN 1000 ELSE 100)

\* the hp a hit of damage takes from the target
TakenByTarget(damage) == Mitigate(damage, enemies[1].damage_reduction)

\* the world before a handler touched it
Untouched == [h |-> hunter, q |-> queue, raised |-> FALSE, rolls |-> DefaultKillRolls(MaxKills)]

\* a = [e, w] is the outcome of the target's attack and d = [h, final] of the
\* hunter's own part of it: the attacker lost the hp of one reflected hit if
\* the hunter took damage and lived, else none, and the hunter took no
\* damage after its own part
ReflectedOnce(a, d) ==
    /\ a.e.hp = enemies[1].hp - (IF ~HunterIsDead(d.h) /\ d.final > 0
                                 THEN TakenByTarget(Reflected(d.final)) ELSE 0)
    /\ a.w.h.hp >= d.h.hp
    /\ a.w.h.total_taken = d.h.total_taken
    /\ a.w.h.total_attacks_suffered = d.h.total_attacks_suffered
    /\ a.w.h.times_revived = d.h.times_revived

\* C16: in every reachable state of a fight of Borge, whatever the rolls, one
\* attack of the target takes from the attacker the hp of at most one
\* reflected hit, a reflected hit lands whatever the attacker's evade roll,
\* and the hunter takes no damage back from it.
C16_ReflectsOnce ==
    InFight /\ hunter.kind = "Borge" =>
        /\ \A r \in DefenceRolls(hunter, enemies[1]) : ReflectedOnce(AttackedBy(r), HitBy(r))
        /\ EnemyReceiveDamage(enemies[1], Untouched, enemies[1].power, TRUE, TRUE)
             = EnemyReceiveDamage(enemies[1], Untouched, enemies[1].power, TRUE, FALSE)
        /\ EnemyReceiveDamage(enemies[1], Untouched, enemies[1].power, TRUE, TRUE).e.hp
             = enemies[1].hp - TakenByTarget(enemies[1].power)

\* the first hit on a Borge with Helltouch Barrier was reflected once: the
\* attacker, not yet attacked, lacks the hp of exactly that reflection
C16_FirstHitReflected ==
    /\ hunter.kind = "Borge" /\ hunter.lv.helltouch_barrier > 0
    /\ hunter.total_attacks_suffered = 1
    /\ hunter.total_taken > 0
    /\ elapsed_time < RoundMs(hunter.speed)
    /\ enemies # <<>>
    /\ enemies[1].hp = enemies[1].max_hp - TakenByTarget(Reflected(hunter.total_taken))

\* C17: in every reachable state the hp of the hunter and of every enemy and
\* boss is at most its max_hp.
C17_HpAtMostMax ==
    /\ hunter.hp <= hunter.max_hp
    /\ \A i \in 1..Len(enemies) : enemies[i].hp <= enemies[i].max_hp

\* a hardened boss, hit by the hunter at this very time, was healed three
\* times by the regen tick that followed and stands at max_hp
C17_HardenedBossHealed ==
    /\ enemies # <<>> /\ enemies[1].boss
    /\ enemies[1].harden_ticks_left \in 1..4
    /\ enemies[1].hp = enemies[1].max_hp
    /\ \E i \in 1..Len(queue) : queue[i] = <<elapsed_time + RegenPeriod, RegenPriority, "regen">>
    /\ \E i \in 1..Len(queue) :
          queue[i] = <<elapsed_time + RoundMs(hunter.speed), HunterPriority, "hunter">>

\* the hp that all heals together have restored
HealedTotal(h) == h.total_regen + h.total_lifesteal + h.total_loth + h.total_potion

\* C18: in every reachable state the per-source totals of healing add up to
\* the hp that heal_hp restored: for a hunter that was never revived, hp is
\* max_hp less the damage taken plus total_regen, total_lifesteal, total_loth
\* and total_potion, each heal counted once with its post-clamp amount.
C18_HealsCountedOnce ==
    hunter.times_revived = 0 =>
        hunter.hp = hunter.max_hp - hunter.total_taken + HealedTotal(hunter)

\* C19: in every reachable state the hp of the hunter and of every enemy is
\* at least 0, also right after a lethal hit.
C19_HpNeverNegative ==
    /\ hunter.hp >= 0
    /\ \A i \in 1..Len(enemies) : enemies[i].hp >= 0

\* C20: the loot accrual of a kill completes for Borge, Ozzy and Knox: once an
\* enemy has died, the kill is counted and its loot is in the hunter's total.
C20_KillAccruesLoot ==
    deaths > 0 => hunter.total_loot > 0 /\ hunter.total_kills > 0

\* the damage of the target's hit under the rolls r, and the half of it
\* that a block takes off
HitDamage(r) == UnitDamage(enemies[1], r.crit)
Blocked(r) == MulDiv(HitDamage(r), 5, 10)

\* the hp a blocked hit under the rolls r deducts: the half left over, reduced
\* by damage_reduction
BlockedHit(r) == Mitigate(HitDamage(r) - Blocked(r), hunter.damage_reduction)

\* C30: in every reachable state of a fight a hit on Knox that is blocked
\* deducts damage * 0.5 * (1 - damage_reduction) from hp (unless the hit
\* kills and Knox revives), adds that to total_taken, adds damage * 0.5 to
\* total_blocked and counts as one attack suffered; Knox never evades.
C30_BlockHalves ==
    hunter.kind = "Knox" =>
        /\ hunter.total_evades = 0
        /\ InFight =>
              \A r \in DefenceRolls(hunter, enemies[1]) :
                 r.block =>
                    /\ BlockedHit(r) > 0
                    /\ AttackedBy(r).w.h.total_blocked = hunter.total_blocked + Blocked(r)
                    /\ AttackedBy(r).w.h.total_taken = hunter.total_taken + BlockedHit(r)
                    /\ AttackedBy(r).w.h.total_attacks_suffered =
                          hunter.total_attacks_suffered + 1
                    /\ AttackedBy(r).w.h.total_evades = 0
                    /\ AttackedBy(r).w.h.times_revived = hunter.times_revived =>
                          AttackedBy(r).w.h.hp = hunter.hp - BlockedHit(r)

\* a Knox with damage reduction has blocked its first hit: it took the
\* mitigated half of it
C30_KnoxBlocked ==
    /\ hunter.kind = "Knox"
    /\ hunter.damage_reduction > 0
    /\ hunter.total_blocked > 0
    /\ hunter.total_attacks_suffered = 1
    /\ hunter.total_taken = Mitigate(hunter.total_blocked, hunter.damage_reduction)
    /\ hunter.hp = hunter.max_hp - hunter.total_taken

\* C21: constructing a hunter from a config that lacks a section or a key
\* never raises, and the hunter built has the stats computed with the missing
\* levels at 0.
C21_MissingKeysDefault ==
    built.state \in {"built", "raised"} =>
        /\ built.state = "built"
        /\ built.hunter = NewHunter(build_config.kind, LevelsOf(build_config))
        /\ build_config.kind = "Knox" => built.block_chance = BlockChance(build_config)

\* C25: at every stage, 300 and the stages above 350 included, the boss's hp
\* is the enemy's hp of that stage times 90 (Borge), 48 (Ozzy) or 120 (Knox)
\* and its power is the enemy's power times 3.63, 3.25 or 4.0 (rounded down
\* to the model's unit).
C25_BossRatio ==
    fetched.state = "boss" =>
        /\ fetched.boss.hp =
              fetched.enemy.hp * (CASE fetch_for.kind = "Borge" -> 90
                                    [] fetch_for.kind = "Ozzy" -> 48
                                    [] fetch_for.kind = "Knox" -> 120)
        /\ 100 * fetched.boss.power <=
              fetched.enemy.power * (CASE fetch_for.kind = "Borge" -> 363
                                       [] fetch_for.kind = "Ozzy" -> 325
                                       [] fetch_for.kind = "Knox" -> 400)
        /\ 100 * (fetched.boss.power + 1) >
              fetched.enemy.power * (CASE fetch_for.kind = "Borge" -> 363
                                       [] fetch_for.kind = "Ozzy" -> 325
                                       [] fetch_for.kind = "Knox" -> 400)

\* the stats of Borge's stage 300 boss are fetched: the enemy they start
\* from carries the stage 300 nerf
C25_NerfedBoss ==
    /\ fetched.state = "boss"
    /\ fetch_for = [kind |-> "Borge", stage |-> 300]
    /\ fetched.enemy.hp < EnemyStatsIn("Borge", 299, StatUnit).hp
    /\ fetched.boss.hp > 0

\* the breakpoint thresholds of the stage multiplier, its rate in thousandths
\* per stage and the threshold of its exponential term
Thresholds(kind) ==
    IF kind = "Knox" THEN <<149, 199, 249, 299, 349, 369, 389, 409, 429>>
    ELSE <<149, 199, 249, 299, 309, 319, 329, 339, 349, 359, 369, 379, 389>>

Rate(kind) == IF kind = "Knox" THEN 7 ELSE 6

ExpThreshold(kind) == IF kind = "Knox" THEN 400 ELSE 350

\* x times the factors 1 + max(stage - t, 0) * rate of the thresholds i.. of
\* the kind: the factor of t is 1 up to t and 1 + rate at t + 1
RECURSIVE Marginal(_, _, _, _)
Marginal(kind, stage, x, i) ==
    IF i > Len(Thresholds(kind)) THEN x
    ELSE Marginal(kind, stage,
                  MulDiv(x, 1000 + Max(stage - Thresholds(kind)[i], 0) * Rate(kind), 1000),
                  i + 1)

\* x scaled with no jump at any threshold: every breakpoint's factor, then
\* 1.01 per stage above the exponential threshold
Continuous(kind, stage, x) ==
    ApplyGrowth(Marginal(kind, stage, x, 1), Max(stage - ExpThreshold(kind), 0))

\* the stage is a threshold T of the kind's multiplier or T + 1
AtThreshold(kind, stage) ==
    \/ \E i \in 1..Len(Thresholds(kind)) :
           stage \in {Thresholds(kind)[i], Thresholds(kind)[i] + 1}
    \/ stage \in {ExpThreshold(kind), ExpThreshold(kind) + 1}

\* C26 as stated: at every threshold T of the stage multiplier and at T + 1 the
\* enemy's hp and power are the base stats times the breakpoints' marginal
\* factors, with no other jump at the boundary.
C26_NoJumpAtThreshold ==
    fetched.state = "enemy" /\ AtThreshold(fetch_for.kind, fetch_for.stage) =>
        /\ fetched.enemy.hp =
              Continuous(fetch_for.kind, fetch_for.stage,
                         EnemyBase(fetch_for.kind, fetch_for.stage, StatUnit).hp)
        /\ fetched.enemy.power =
              Continuous(fetch_for.kind, fetch_for.stage,
                         EnemyBase(fetch_for.kind, fetch_for.stage, StatUnit).power)

\* C26: at every threshold T of the stage multiplier and at T + 1 the enemy's
\* hp and power are the base stats times the breakpoints' marginal factors,
\* with one exception: at stage 300, which is T + 1 of the threshold 299, the
\* stage 300 nerf (0.9 for Borge, 0.94 for Ozzy) multiplies them too.
C26_NoJumpButNerf ==
    fetched.state = "enemy" /\ AtThreshold(fetch_for.kind, fetch_for.stage) =>
        /\ fetched.enemy.hp =
              (IF fetch_for.stage = 300 /\ fetch_for.kind = "Borge"
                   THEN MulDiv(Continuous("Borge", 300, EnemyBase("Borge", 300, StatUnit).hp),
                               9, 10)
               ELSE IF fetch_for.stage = 300 /\ fetch_for.kind = "Ozzy"
                   THEN MulDiv(Continuous("Ozzy", 300, EnemyBase("Ozzy", 300, StatUnit).hp),
                               94, 100)
               ELSE Continuous(fetch_for.kind, fetch_for.stage,
                               EnemyBase(fetch_for.kind, fetch_for.stage, StatUnit).hp))
        /\ fetched.enemy.power =
              (IF fetch_for.stage = 300 /\ fetch_for.kind = "Borge"
                   THEN MulDiv(Continuous("Borge", 300, EnemyBase("Borge", 300, StatUnit).power),
                               9, 10)
               ELSE IF fetch_for.stage = 300 /\ fetch_for.kind = "Ozzy"
                   THEN MulDiv(Continuous("Ozzy", 300, EnemyBase("Ozzy", 300, StatUnit).power),
                               94, 100)
               ELSE Continuous(fetch_for.kind, fetch_for.stage,
                               EnemyBase(fetch_for.kind, fetch_for.stage, StatUnit).power))

\* the stats of Ozzy's enemy at stage 300 are fetched: the breakpoint of the
\* threshold 299 is active and the nerf has lowered the hp below the
\* continuous value
C26_NerfAtThreshold ==
    /\ fetched.state = "enemy"
    /\ fetch_for = [kind |-> "Ozzy", stage |-> 300]
    /\ fetched.enemy.hp > 0
    /\ fetched.enemy.hp < Continuous("Ozzy", 300, EnemyBase("Ozzy", 300, StatUnit).hp)

\* C22: when a run of a build's batch raises, the batch is not aborted: a
\* BuildResult of that build, computed from its successful runs, is among the
\* results once the build is counted as tested.
C22_BatchSurvivesFailure ==
    \A b \in worker.raised : \E i \in 1..Len(results) : results[i].build = b

\* C23: once stop_event is set no further simulation run is dispatched.
C23_NoDispatchAfterStop ==
    [][stop_event => worker'.dispatched = worker.dispatched]_vars

\* C27: every BuildResult aggregated from n > 0 runs has, for k = 1..5, a boss
\* k survival rate of the number of runs with final_stage > 100 * k over n;
\* each rate is in [0, 1], the rates do not increase with k, and
\* lowest_stage <= avg_final_stage <= highest_stage.
C27_BossSurvival ==
    \A i \in 1..Len(results) :
        LET n == Len(results[i].final_stages)
        IN  /\ n > 0
            /\ results[i].n = n
            /\ \A k \in 1..5 :
                   /\ results[i].boss_survival[k] =
                         Cardinality({j \in 1..n : results[i].final_stages[j] > 100 * k})
                   /\ results[i].boss_survival[k] >= 0
                   /\ results[i].boss_survival[k] <= n
            /\ \A k \in 1..4 :
                   results[i].boss_survival[k] >= results[i].boss_survival[k + 1]
            /\ results[i].avg_final_stage.n = n
            /\ results[i].lowest_stage * n <= results[i].avg_final_stage.sum
            /\ results[i].avg_final_stage.sum <= results[i].highest_stage * n

\* a BuildResult of runs that ended at boss 1 and beyond boss 5
C27_MixedBatch ==
    \E i \in 1..Len(results) :
        /\ {100, 501} \subseteq Range(results[i].final_stages)
        /\ results[i].boss_survival[1] < results[i].n
        /\ results[i].boss_survival[5] > 0

\* C28: in Run-All mode at most one hunter tab has is_running = True at any
\* moment, however the Run All and Stop All presses interleave with the
\* scheduled callbacks.
C28_OneTabAtATime ==
    Cardinality({name \in DOMAIN hunter_tabs : hunter_tabs[name].is_running}) <= 1

\* C29: the allocation the random walk returns costs at most the attribute
\* points, has every level within its maximum, and every attribute above 0
\* in it has its dependencies at the required levels, its point gate met by
\* the points spent in the other attributes, and no attribute exclusive with
\* it above 0.
C29_AllocationValid ==
    walk.pc = "returned" =>
        /\ PointsSpent(walk.result, DOMAIN walk.result) <= AttributePoints
        /\ \A a \in DOMAIN walk.result :
               /\ walk.result[a] >= 0
               /\ BorgeAttributes[a].limited => walk.result[a] <= BorgeAttributes[a].max
               /\ walk.result[a] > 0 =>
                      /\ \A d \in BorgeAttributes[a].deps : walk.result[d[1]] >= d[2]
                      /\ PointsSpent(walk.result, DOMAIN walk.result \ {a})
                             >= BorgeAttributes[a].gate
                      /\ \A pair \in attribute_exclusions :
                             a \in pair => \A other \in pair \ {a} : walk.result[other] = 0

\* an allocation is returned with points in the gated born_for_battle
C29_GatedAttributeTaken ==
    /\ walk.pc = "returned"
    /\ walk.result["born_for_battle"] > 0

\* the 'enemy_special' events of q
SecondaryEvents(q) == SelectSeq(q, LAMBDA ev : ev[3] = "enemy_special")

\* the queue q holds the initial attacks of the enemy e queued at time now:
\* one 'enemy' event an attack interval later, and one 'enemy_special' event
\* speed2 later if e is a boss of Borge or Ozzy at stage 200 or later, none
\* otherwise
Seeded(q, e, h, now) ==
    /\ PrimaryEvents(q) = << <<RoundMs(now * 1000 + UnitSpeed(e)), 2, "enemy">> >>
    /\ SecondaryEvents(q) =
          IF e.boss /\ h.kind \in {"Borge", "Ozzy"} /\ h.current_stage >= 200
          THEN << <<RoundMs(now * 1000 + UnitSpeed2(e)), 2, "enemy_special">> >>
          ELSE <<>>

\* the target is dead or trampled away and the hunter lives: the loop makes the
\* next enemy, or the next stage's first, the target
SteppingUp ==
    /\ Running
    /\ ~HunterIsDead(hunter)
    /\ IF enemies = <<>> THEN TRUE ELSE UnitIsDead(enemies[1])

\* C31: queue_initial_attack, at the start of the run and whenever a new
\* target steps up, leaves exactly one 'enemy' event at elapsed_time plus the
\* enemy's attack interval, and exactly one 'enemy_special' event at
\* elapsed_time + speed2 if and only if the enemy is a boss of Borge or Ozzy
\* at stage 200 or later; every other event stays as it was.
C31_InitialAttacks ==
    /\ Seeded(queue, enemies[1], hunter, 0)
    /\ [][SteppingUp => /\ Seeded(queue', enemies'[1], hunter', elapsed_time)
                         /\ SameEvents(queue, OtherEvents(queue'))]_vars

\* the boss of stage 200 has stepped up during the run, with both its attacks
\* queued
C31_BossSteppedUp ==
    /\ enemies # <<>> /\ enemies[1].boss /\ ~UnitIsDead(enemies[1])
    /\ hunter.current_stage = 200 /\ hunter.total_kills > 0
    /\ Len(PrimaryEvents(queue)) = 1
    /\ Len(SecondaryEvents(queue)) = 1

\* C32: in every reachable state catching_up is true exactly while
\* current_stage < 100, and no step sets it back to true once it is cleared.
C32_CatchingUpBelow100 ==
    /\ [](hunter.catching_up <=> hunter.current_stage < 100)
    /\ [][~hunter.catching_up => ~hunter'.catching_up]_vars

\* the hunter has completed stage 99 during the run: catching up is over
C32_Reached100 ==
    /\ hunter.current_stage = 100
    /\ hunter.total_kills > 0
    /\ ~hunter.catching_up

\* the events popped so far came out in ascending order, and none pending is
\* smaller than the last one popped
PopsInOrder(c) ==
    /\ \A i \in 1..(Len(c.popped) - 1) : ~Lt(c.popped[i + 1], c.popped[i])
    /\ \A j \in 1..Len(c.q) :
          c.popped # <<>> => ~Lt(c.q[j], c.popped[Len(c.popped)])

C37_OneEventPerTriggered ==
    hunter.kind = "Ozzy" =>
        /\ Cardinality(Pending(queue, "hunter_special")) = Len(hunter.attack_queue)
        /\ (queue # <<>> /\ queue[1][3] = "hunter_special") => hunter.attack_queue # <<>>
        /\ (queue # <<>> /\ queue[1][3] = "hunter") => hunter.attack_queue = <<>>

\* Ozzy's target died with a triggered attack still pending
C37_TargetDiedInBetween ==
    /\ hunter.kind = "Ozzy"
    /\ enemies # <<>>
    /\ UnitIsDead(enemies[1])
    /\ hunter.attack_queue # <<>>
    /\ Pending(queue, "hunter_special") # {}

C39_RescheduledLater ==
    pace.pc = "fight" =>
        /\ UnitSpeed(pace.unit) > 0
        /\ pace.unit.has_special => UnitSpeed2(pace.unit) > 0
        /\ pace.pushed_at > pace.popped_at

\* the three tier totals of the hunter
TierLoot(h) == h.loot_common + h.loot_uncommon + h.loot_rare

\* the totals are not negative and the tiers add up to total_loot; each of
\* the n calls of on_kill rounds each of its three shares down, by less than
\* one ten-thousandth
LootPartitioned(h, n) ==
    /\ h.total_loot >= 0 /\ h.loot_common >= 0
    /\ h.loot_uncommon >= 0 /\ h.loot_rare >= 0
    /\ TierLoot(h) <= h.total_loot
    /\ h.total_loot - TierLoot(h) <= 2 * n

\* C40: in every reachable state total_loot and the three tier totals are
\* non-negative and the tiers sum to total_loot (up to the rounding of the
\* shares), and no step decreases any of the four.
C40_LootPartitioned ==
    /\ []LootPartitioned(hunter, on_kills)
    /\ [][/\ hunter'.total_loot >= hunter.total_loot
          /\ hunter'.loot_common >= hunter.loot_common
          /\ hunter'.loot_uncommon >= hunter.loot_uncommon
          /\ hunter'.loot_rare >= hunter.loot_rare]_vars

\* several kills have paid loot into every tier
C40_LootOfKills ==
    /\ hunter.total_kills >= 3
    /\ hunter.loot_common > 0 /\ hunter.loot_uncommon > 0 /\ hunter.loot_rare > 0
    /\ hunter.total_loot > TierLoot(hunter)

\* C33: once Stop was pressed on a running tab, the tab returns to idle
\* (is_running = False), whatever the order of the worker's posts and the
\* stop and poll callbacks.
C33_StopReturnsToIdle ==
    (tab.window # "none" /\ tab.is_running /\ tab.stop_event)
        ~> (tab.window # "none" /\ ~tab.is_running)

\* is_running goes from true to false in this step
Cleared == tab.is_running /\ ~tab'.is_running

\* C34: at most one worker thread of the tab is alive, and only while
\* is_running; a start while is_running starts none; and is_running is
\* cleared only by a poll that took a 'done' or 'error' off the queue.
C34_OneWorker ==
    /\ [](tab.window # "none" =>
             /\ tab.alive <= 1
             /\ tab.alive = 1 => tab.is_running)
    /\ [][(tab.window # "none" /\ tab.is_running /\ tab'.starts > tab.starts)
             => (tab'.alive = tab.alive /\ tab'.is_running)]_vars
    /\ [][(tab.window # "none" /\ Cleared)
             => /\ FirstTerminal(tab.result_queue) > 0
                /\ Len(tab'.result_queue)
                      = Len(tab.result_queue) - FirstTerminal(tab.result_queue)
                /\ tab.alive = 0]_vars

\* a start was ignored while the tab's worker was alive
C34_StartIgnored ==
    /\ tab.window # "none"
    /\ tab.ignored > 0
    /\ tab.alive = 1
    /\ tab.starts = MaxStarts

====
